---- MODULE Spec2Model ----
(***************************************************************************)
(* Offline log / kvstore decoder of tools/metadata_viewer (storage.py,     *)
(* kvstore.py).  Files are sequences of bytes.  Fixed-width integers are   *)
(* kept as their little-endian words (sequences of bytes), so that every   *)
(* bit pattern of a header is representable; IntOf gives the numeric       *)
(* value of a word where the code computes with it.                        *)
(***************************************************************************)
EXTENDS Integers, Sequences, FiniteSets, Bags, TLC

(***************************************************************************)
(* Bytes and words                                                         *)
(***************************************************************************)
Byte == 0..255

Zeros(n) == [i \in 1..n |-> 0]

AllZero(w) == \A i \in 1..Len(w) : w[i] = 0

Reverse(w) == [i \in 1..Len(w) |-> w[Len(w) + 1 - i]]

\* bytes [from+1 .. from+n] of s (from is a 0-based offset, as in Python)
Slice(s, from, n) == SubSeq(s, from + 1, from + n)

\* struct.pack("<..", v): the n-byte little-endian two's complement word of v
RECURSIVE LeWord(_, _)
LeWord(v, n) == IF n = 0 THEN <<>> ELSE <<(v % 256)>> \o LeWord(v \div 256, n - 1)

\* struct.unpack of a signed little-endian word
RECURSIVE IntOf(_)
IntOf(w) ==
    IF Len(w) = 1 THEN (IF w[1] >= 128 THEN w[1] - 256 ELSE w[1])
    ELSE w[1] + 256 * IntOf(Tail(w))

(***************************************************************************)
(* CRC32C (Castagnoli), table driven, on 32-bit words                      *)
(***************************************************************************)
Bit(a, k) == (a \div k) % 2

Xor1(x, y) == (x + y) % 2

Xor4 ==
    [a \in 0..15 |-> [b \in 0..15 |->
        Xor1(Bit(a, 1), Bit(b, 1))
        + 2 * Xor1(Bit(a, 2), Bit(b, 2))
        + 4 * Xor1(Bit(a, 4), Bit(b, 4))
        + 8 * Xor1(Bit(a, 8), Bit(b, 8))]]

Xor8 ==
    [a \in Byte |-> [b \in Byte |->
        16 * Xor4[a \div 16][b \div 16] + Xor4[(a % 16)][(b % 16)]]]

XorByte(a, b) == Xor8[a][b]

XorWord(v, w) ==
    <<XorByte(v[1], w[1]), XorByte(v[2], w[2]), XorByte(v[3], w[3]), XorByte(v[4], w[4])>>

\* the reflected polynomial 0x82F63B78 as a little-endian word
CrcPoly == <<120, 59, 246, 130>>

ShiftRight1(w) ==
    <<(w[1] \div 2) + 128 * Bit(w[2], 1), (w[2] \div 2) + 128 * Bit(w[3], 1),
      (w[3] \div 2) + 128 * Bit(w[4], 1), w[4] \div 2>>

\* one bit of the reflected division
CrcBit(w) ==
    IF Bit(w[1], 1) = 1 THEN XorWord(ShiftRight1(w), CrcPoly) ELSE ShiftRight1(w)

CrcTable ==
    [i \in Byte |->
        CrcBit(CrcBit(CrcBit(CrcBit(CrcBit(CrcBit(CrcBit(CrcBit(<<i, 0, 0, 0>>))))))))]

CrcStep(c, b) == XorWord(CrcTable[XorByte(c[1], b)], <<c[2], c[3], c[4], 0>>)

\* the 32-bit running value c taken over the bytes data[i..]
RECURSIVE CrcFold(_, _, _)
CrcFold(c, data, i) ==
    IF i > Len(data) \/ Len(c) # 4 THEN c
    ELSE CrcFold(CrcStep(c, data[i]), data, i + 1)

Ones32 == <<255, 255, 255, 255>>

\* crc32c.crc32c(data, crc): crc is the running value (0 to start)
crc32c(data, crc) == XorWord(CrcFold(XorWord(crc, Ones32), data, 1), Ones32)

(***************************************************************************)
(* storage.py: batch header, Batch, Batch.from_stream                      *)
(***************************************************************************)
HEADER_SIZE == 61

\* the 13 fields of HDR_FMT_RP = "<IiqbIhiqqqhii", in order, with their sizes
HeaderFields ==
    <<"header_crc", "batch_size", "base_offset", "type", "crc", "attrs",
      "delta", "first_ts", "max_ts", "producer_id", "producer_epoch",
      "base_seq", "record_count">>

HeaderSizes == <<4, 4, 8, 1, 4, 2, 4, 8, 8, 8, 2, 4, 4>>

RECURSIVE FieldOffset(_)
FieldOffset(k) == IF k = 1 THEN 0 ELSE FieldOffset(k - 1) + HeaderSizes[k - 1]

FieldIndex(name) == CHOOSE k \in 1..13 : HeaderFields[k] = name

\* Header(*struct.unpack(HDR_FMT_RP, data)): each field as its word
Header(data) ==
    [name \in {HeaderFields[k] : k \in 1..13} |->
        Slice(data, FieldOffset(FieldIndex(name)), HeaderSizes[FieldIndex(name)])]

\* struct.pack("<" + fmt, *header[from-1:]): the fields from..13, little-endian
RECURSIVE PackLE(_, _)
PackLE(header, from) ==
    IF from > 13 THEN <<>>
    ELSE header[HeaderFields[from]] \o PackLE(header, from + 1)

\* struct.pack(">" + HDR_FMT_CRC, *header[5:]): the fields from..13, big-endian
RECURSIVE PackBE(_, _)
PackBE(header, from) ==
    IF from > 13 THEN <<>>
    ELSE Reverse(header[HeaderFields[from]]) \o PackBE(header, from + 1)

\* a faulty test that takes no header for the all-zero one
HeaderNeverZero(header) == FALSE

\* all(map(lambda v: v == 0, header))
HeaderAllZero(header) == \A k \in 1..13 : AllZero(header[HeaderFields[k]])

_crc_header_be_bytes(header) == PackBE(header, 6)

HeaderCrcOf(header) == crc32c(PackLE(header, 2), Zeros(4))

BodyCrcOf(header, records) ==
    crc32c(records, crc32c(_crc_header_be_bytes(header), Zeros(4)))

\* a faulty Batch.__init__ that verifies header_crc only
BatchInitHeaderOnly(index, header, records) ==
    LET b == [index |-> index, header |-> header, records |-> records] IN
    IF header.header_crc # HeaderCrcOf(header)
    THEN [kind |-> "CorruptBatchError", batch |-> b]
    ELSE [kind |-> "Batch", batch |-> b]

\* Batch.__init__: the batch, or CorruptBatchError carrying it
BatchInit(index, header, records) ==
    LET b == [index |-> index, header |-> header, records |-> records] IN
    IF header.header_crc # HeaderCrcOf(header)
    THEN [kind |-> "CorruptBatchError", batch |-> b]
    ELSE IF header.crc # BodyCrcOf(header, records)
    THEN [kind |-> "CorruptBatchError", batch |-> b]
    ELSE [kind |-> "Batch", batch |-> b]

last_offset(b) == IntOf(b.header.base_offset) + IntOf(b.header.record_count) - 1

\* f.read(n) at position pos: at most n bytes; all the rest when n < 0
Read(f, pos, n) ==
    IF n < 0 \/ pos + n > Len(f) THEN Slice(f, pos, Len(f) - pos)
    ELSE Slice(f, pos, n)

NoBatch == [index |-> 0, header |-> Header(Zeros(HEADER_SIZE)), records |-> <<>>]

AtPos(r, p) == [kind |-> r.kind, batch |-> r.batch, pos |-> p]

\* a faulty from_stream that ends the stream at a batch failing its checksums
BatchOfRegionEnding(index, header, recs, p1) ==
    IF Len(recs) # IntOf(header.batch_size) - HEADER_SIZE
    THEN [kind |-> "AssertionError", batch |-> NoBatch, pos |-> p1 + Len(recs)]
    ELSE IF BatchInit(index, header, recs).kind = "Batch"
    THEN AtPos(BatchInit(index, header, recs), p1 + Len(recs))
    ELSE [kind |-> "None", batch |-> NoBatch, pos |-> p1 + Len(recs)]

\* a faulty from_stream that leaves the stream where the record region
\* starts
BatchOfRegionRewinding(index, header, recs, p1) ==
    IF Len(recs) # IntOf(header.batch_size) - HEADER_SIZE
    THEN [kind |-> "AssertionError", batch |-> NoBatch, pos |-> p1 + Len(recs)]
    ELSE AtPos(BatchInit(index, header, recs), p1)

\* the rest of from_stream once the header is unpacked: the record region
\* recs was read from position p1
BatchOfRegion(index, header, recs, p1) ==
    IF Len(recs) # IntOf(header.batch_size) - HEADER_SIZE
    THEN [kind |-> "AssertionError", batch |-> NoBatch, pos |-> p1 + Len(recs)]
    ELSE AtPos(BatchInit(index, header, recs), p1 + Len(recs))

\* a faulty from_stream that reads on behind an all-zero header when a
\* header that is not all-zero follows it
BatchOfHeaderSkippingZeros(f, p1, index, header) ==
    IF HeaderAllZero(header)
    THEN IF Len(Read(f, p1, HEADER_SIZE)) = HEADER_SIZE
            /\ ~HeaderAllZero(Header(Read(f, p1, HEADER_SIZE)))
         THEN BatchOfRegion(index, Header(Read(f, p1, HEADER_SIZE)),
                            Read(f, p1 + HEADER_SIZE,
                                 IntOf(Header(Read(f, p1, HEADER_SIZE)).batch_size)
                                    - HEADER_SIZE),
                            p1 + HEADER_SIZE)
         ELSE [kind |-> "None", batch |-> NoBatch, pos |-> p1]
    ELSE IF IntOf(header.batch_size) - HEADER_SIZE < -1
    THEN [kind |-> "ValueError", batch |-> NoBatch, pos |-> p1]
    ELSE BatchOfRegion(index, header,
                       Read(f, p1, IntOf(header.batch_size) - HEADER_SIZE), p1)

\* the rest of from_stream once HEADER_SIZE bytes were read: f.read(n) of a
\* buffered binary file raises ValueError for n < -1
BatchOfHeader(f, p1, index, header) ==
    IF HeaderAllZero(header)
    THEN [kind |-> "None", batch |-> NoBatch, pos |-> p1]
    ELSE IF IntOf(header.batch_size) - HEADER_SIZE < -1
    THEN [kind |-> "ValueError", batch |-> NoBatch, pos |-> p1]
    ELSE BatchOfRegion(index, header,
                       Read(f, p1, IntOf(header.batch_size) - HEADER_SIZE), p1)

BatchOfData(f, pos, index, data) ==
    IF Len(data) = HEADER_SIZE
    THEN BatchOfHeader(f, pos + HEADER_SIZE, index, Header(data))
    ELSE IF Len(data) # 0
    THEN [kind |-> "AssertionError", batch |-> NoBatch, pos |-> pos + Len(data)]
    ELSE [kind |-> "None", batch |-> NoBatch, pos |-> pos]

\* Batch.from_stream(f, index) with the stream at pos: what it returns or
\* raises, and the stream position afterwards
from_stream(f, pos, index) == BatchOfData(f, pos, index, Read(f, pos, HEADER_SIZE))

(***************************************************************************)
(* reader.py (Byte Reader): a read returns [ok, v, pos]; ok = FALSE is the  *)
(* TruncatedInputError of a stream exhausted mid-field.                    *)
(***************************************************************************)
Truncated(pos) == [ok |-> FALSE, v |-> <<>>, pos |-> pos]

\* read_bytes(n) (n <= 0 reads nothing)
read_bytes(s, pos, n) ==
    IF n <= 0 THEN [ok |-> TRUE, v |-> <<>>, pos |-> pos]
    ELSE IF pos + n > Len(s) THEN Truncated(pos)
    ELSE [ok |-> TRUE, v |-> Slice(s, pos, n), pos |-> pos + n]

\* read_int8/16/32/64, read_uint32/64: the n-byte little-endian word
read_word(s, pos, n) == read_bytes(s, pos, n)

AsInt(r) == IF r.ok THEN [ok |-> TRUE, v |-> IntOf(r.v), pos |-> r.pos] ELSE r

\* the same, as a number
read_int(s, pos, n) == AsInt(read_word(s, pos, n))

\* a 7-bit group b followed by the groups r
VarintGroup(b, r) ==
    IF r.ok THEN [ok |-> TRUE, v |-> (b % 128) + 128 * r.v, pos |-> r.pos] ELSE r

\* the 7-bit groups of an unsigned LEB128 number, least significant first
RECURSIVE read_unsigned_varint(_, _)
read_unsigned_varint(s, pos) ==
    IF pos + 1 > Len(s) THEN Truncated(pos)
    ELSE IF s[pos + 1] < 128 THEN [ok |-> TRUE, v |-> s[pos + 1], pos |-> pos + 1]
    ELSE VarintGroup(s[pos + 1], read_unsigned_varint(s, pos + 1))

decode_zig_zag(n) == IF n % 2 = 0 THEN n \div 2 ELSE -((n + 1) \div 2)

ZigZagged(r) ==
    IF r.ok THEN [ok |-> TRUE, v |-> decode_zig_zag(r.v), pos |-> r.pos] ELSE r

read_varint(s, pos) == ZigZagged(read_unsigned_varint(s, pos))

\* n bytes, n being the result of reading a length
BytesOfLength(s, n) == IF n.ok THEN read_bytes(s, n.pos, n.v) ELSE n

\* read_iobuf: an int32 length, then that many bytes
read_iobuf(s, pos) == BytesOfLength(s, read_int(s, pos, 4))

\* an absent value (Python's None) and a present one
None == [some |-> FALSE, bytes |-> <<>>]

Some(b) == [some |-> TRUE, bytes |-> b]

AsSome(r) == IF r.ok THEN [ok |-> TRUE, v |-> Some(r.v), pos |-> r.pos] ELSE r

OptionalOf(s, present) ==
    IF ~present.ok THEN present
    ELSE IF present.v = 0 THEN [ok |-> TRUE, v |-> None, pos |-> present.pos]
    ELSE AsSome(read_iobuf(s, present.pos))

\* read_optional(lambda r: r.read_iobuf()): a presence byte, then the buffer
read_optional_iobuf(s, pos) == OptionalOf(s, read_int(s, pos, 1))

\* a faulty read that returns the empty bytes for a length of 0
BytesOrEmpty(s, n) ==
    IF ~n.ok THEN n ELSE AsSome(read_bytes(s, n.pos, n.v))

\* "if n > 0: read_bytes(n) else: None", n being the result of reading a length
BytesOrNone(s, n) ==
    IF ~n.ok THEN n
    ELSE IF n.v > 0 THEN AsSome(read_bytes(s, n.pos, n.v))
    ELSE [ok |-> TRUE, v |-> None, pos |-> n.pos]

\* one field of a record layout: "varint"; "int8"/"int32" (a number);
\* "word8" (an i64 kept as its word); "iobuf"; "vbytes": a varint length n,
\* then n bytes when n > 0 and None otherwise; "hbytes": a varint length n,
\* then read_bytes(n)
ReadField(s, pos, kind) ==
    IF kind = "varint" THEN read_varint(s, pos)
    ELSE IF kind = "int8" THEN read_int(s, pos, 1)
    ELSE IF kind = "int32" THEN read_int(s, pos, 4)
    ELSE IF kind = "word8" THEN read_word(s, pos, 8)
    ELSE IF kind = "iobuf" THEN read_iobuf(s, pos)
    ELSE IF kind = "hbytes" THEN BytesOfLength(s, read_varint(s, pos))
    ELSE BytesOrNone(s, read_varint(s, pos))

\* a value v in front of the values rest
Prepend(v, rest) == [ok |-> rest.ok, v |-> <<v>> \o rest.v, pos |-> rest.pos]

\* the fields of a layout read one after the other, until one is truncated
RECURSIVE ReadFields(_, _, _)
RECURSIVE ReadFieldsAfter(_, _, _)
ReadFields(s, pos, layout) ==
    IF layout = <<>> THEN [ok |-> TRUE, v |-> <<>>, pos |-> pos]
    ELSE ReadFieldsAfter(s, ReadField(s, pos, Head(layout)), Tail(layout))

ReadFieldsAfter(s, one, layout) ==
    IF ~one.ok THEN Truncated(one.pos)
    ELSE Prepend(one.v, ReadFields(s, one.pos, layout))

(***************************************************************************)
(* storage.py: RecordIter                                                  *)
(***************************************************************************)
Record(length, attrs, timestamp_delta, offset_delta, key, value, headers) ==
    [length |-> length, attrs |-> attrs, timestamp_delta |-> timestamp_delta,
     offset_delta |-> offset_delta, key |-> key, value |-> value,
     headers |-> headers]

\* RecordIter._parse_header: k_sz, key, v_sz, value
_parse_header(s, pos) == ReadFields(s, pos, <<"hbytes", "hbytes">>)

\* "for i in range(0, hdr_size): headers.append(self._parse_header())"
RECURSIVE parse_headers(_, _, _)
RECURSIVE parse_headers_after(_, _, _)
parse_headers(s, pos, n) ==
    IF n <= 0 THEN [ok |-> TRUE, v |-> <<>>, pos |-> pos]
    ELSE parse_headers_after(s, _parse_header(s, pos), n - 1)

parse_headers_after(s, h, n) ==
    IF ~h.ok THEN h ELSE Prepend(h.v, parse_headers(s, h.pos, n))

\* the reads of RecordIter.__next__, in order: len, attrs, timestamp_delta,
\* offset_delta, key_length and key, value_length and value, hdr_size
RecordLayout == <<"varint", "int8", "varint", "varint", "vbytes", "vbytes", "varint">>

RecordOf(f, headers) ==
    [ok |-> headers.ok,
     v |-> Record(f[1], f[2], f[3], f[4], f[5], f[6], headers.v),
     pos |-> headers.pos]

RecordAfter(s, f) ==
    IF ~f.ok THEN f ELSE RecordOf(f.v, parse_headers(s, f.pos, f.v[7]))

\* the body of RecordIter.__next__ after the record_count test: one record
\* parsed from the record region s at pos
parse_record(s, pos) == RecordAfter(s, ReadFields(s, pos, RecordLayout))

(***************************************************************************)
(* kvstore.py: KvStoreRecordDecoder, KvStore._apply                        *)
(***************************************************************************)
KVSTORE_BATCH_TYPE == 4

\* a faulty _decode_ks that knows no name for a keyspace byte above 3
_decode_ks_known(ks) ==
    IF ks = 0 THEN "testing"
    ELSE IF ks = 1 THEN "consensus"
    ELSE IF ks = 2 THEN "storage"
    ELSE "cluster"

\* a faulty _decode_ks that keeps an undefined keyspace byte 7 apart
_decode_ks_apart(ks) ==
    IF ks = 0 THEN "testing"
    ELSE IF ks = 1 THEN "consensus"
    ELSE IF ks = 2 THEN "storage"
    ELSE IF ks = 3 THEN "cluster"
    ELSE IF ks = 7 THEN "unknown7"
    ELSE "unknown"

_decode_ks(ks) ==
    IF ks = 0 THEN "testing"
    ELSE IF ks = 1 THEN "consensus"
    ELSE IF ks = 2 THEN "storage"
    ELSE IF ks = 3 THEN "cluster"
    ELSE "unknown"

\* BytesIO(x): the bytes of x, none when x is None
BytesIO(x) == IF x.some THEN x.bytes ELSE <<>>

NoEntry ==
    [epoch |-> <<>>, offset |-> 0, key_space |-> "", key_buf |-> <<>>, data |-> None]

EntryOf(record, header, keyspace, data) ==
    IF ~keyspace.ok \/ ~data.ok THEN [kind |-> "TruncatedInputError", entry |-> NoEntry]
    ELSE [kind |-> "entry",
          entry |-> [epoch |-> header.first_ts,
                     offset |-> IntOf(header.base_offset) + record.offset_delta,
                     key_space |-> _decode_ks(keyspace.v),
                     key_buf |-> Read(BytesIO(record.key), keyspace.pos, -1),
                     \* "if data:" an empty buffer counts as no data
                     data |-> IF data.v.some /\ data.v.bytes # <<>>
                              THEN data.v ELSE None]]

\* KvStoreRecordDecoder(record, header).decode(): the entry, or what it raises
\* (ret['ts'], a formatting of ret['epoch'], is left out)
KvStoreRecordDecode(record, header) ==
    IF IntOf(header.type) # KVSTORE_BATCH_TYPE
    THEN [kind |-> "AssertionError", entry |-> NoEntry]
    ELSE EntryOf(record, header, read_int(BytesIO(record.key), 0, 1),
                 read_optional_iobuf(BytesIO(record.value), 0))

\* a faulty _apply that keeps the first value written for a key
_apply_first_writer(store, entry) ==
    LET key == <<entry.key_space, entry.key_buf>> IN
    IF entry.data # None /\ key \notin DOMAIN store
    THEN [k \in DOMAIN store \cup {key} |->
             IF k = key THEN entry.data.bytes ELSE store[k]]
    ELSE store

\* a faulty _apply that keeps an entry for every value written to a key
_apply_every_value(store, entry) ==
    LET key == <<entry.key_space, entry.key_buf, entry.data.bytes>> IN
    IF entry.data # None
    THEN [k \in DOMAIN store \cup {key} |->
             IF k = key THEN entry.data.bytes ELSE store[k]]
    ELSE store

\* a faulty _apply that takes an entry without data for a delete
_apply_deleting(store, entry) ==
    LET key == <<entry.key_space, entry.key_buf>> IN
    IF entry.data # None
    THEN [k \in DOMAIN store \cup {key} |->
             IF k = key THEN entry.data.bytes ELSE store[k]]
    ELSE [k \in DOMAIN store \ {key} |-> store[k]]

\* KvStore._apply on the map store
_apply(store, entry) ==
    LET key == <<entry.key_space, entry.key_buf>> IN
    IF entry.data # None
    THEN [k \in DOMAIN store \cup {key} |->
             IF k = key THEN entry.data.bytes ELSE store[k]]
    ELSE store

(***************************************************************************)
(* kvstore.py: Snapshot, KvSnapshot, SnapshotBatch                         *)
(***************************************************************************)
SNAP_HDR_SIZE == 13

\* SnapshotHeader(*struct.unpack("<IIbi", data))
SnapshotHeader(data) ==
    [header_crc |-> Slice(data, 0, 4), metadata_crc |-> Slice(data, 4, 4),
     version |-> Slice(data, 8, 1), metadata_size |-> Slice(data, 9, 4)]

SnapshotParts(f, meta) ==
    [header |-> Some(Read(f, 0, SNAP_HDR_SIZE)), meta |-> Some(meta),
     data |-> Some(Read(f, SNAP_HDR_SIZE + Len(meta), -1))]

\* Snapshot.read() of an existing file
SnapshotRead(f) ==
    IF Len(Read(f, 0, SNAP_HDR_SIZE)) = SNAP_HDR_SIZE
    THEN SnapshotParts(f, Read(f, SNAP_HDR_SIZE,
             IntOf(SnapshotHeader(Read(f, 0, SNAP_HDR_SIZE)).metadata_size)))
    ELSE [header |-> None, meta |-> None, data |-> None]

\* the reads of one round of the records loop of SnapshotBatch.from_stream:
\* sz, attr, ts, o_delta, (skipped), key, (skipped), v, (skipped)
SnapshotRecordLayout ==
    <<"int32", "int8", "word8", "int32", "int32", "iobuf", "int32", "iobuf", "int32">>

SnapshotRecordOf(f) == Record(f[1], f[2], f[3], f[4], Some(f[6]), Some(f[8]), <<>>)

\* the records loop of SnapshotBatch.from_stream
RECURSIVE SnapshotRecords(_, _, _)
RECURSIVE SnapshotRecordsAfter(_, _, _)
SnapshotRecords(f, pos, n) ==
    IF n <= 0 THEN [ok |-> TRUE, v |-> <<>>, pos |-> pos]
    ELSE SnapshotRecordsAfter(f, ReadFields(f, pos, SnapshotRecordLayout), n - 1)

SnapshotRecordsAfter(f, r, n) ==
    IF ~r.ok THEN r ELSE Prepend(SnapshotRecordOf(r.v), SnapshotRecords(f, r.pos, n))

NoSnapshotBatch == [ok |-> FALSE, header |-> NoBatch.header, records |-> <<>>]

\* a faulty from_stream that verifies the header checksum as Batch does
SnapshotBatchOfVerified(header, recs) ==
    [ok |-> recs.ok /\ header.header_crc = HeaderCrcOf(header), header |-> header,
     records |-> recs.v]

SnapshotBatchOf(header, recs) ==
    [ok |-> recs.ok, header |-> header, records |-> recs.v]

\* SnapshotBatch.from_stream(f): the 13 header fields, term and compressed
\* (70 bytes), then header.record_count records; no checksum is verified
SnapshotBatchFromStream(f) ==
    IF Len(f) < HEADER_SIZE + 9 THEN NoSnapshotBatch
    ELSE SnapshotBatchOf(Header(SubSeq(f, 1, HEADER_SIZE)),
             SnapshotRecords(f, HEADER_SIZE + 9,
                             IntOf(Header(SubSeq(f, 1, HEADER_SIZE)).record_count)))

SnapshotBatchIn(body) == IF ~body.ok THEN NoSnapshotBatch ELSE SnapshotBatchFromStream(body.v)

\* KvSnapshot.decode() on what Snapshot.read() left: last_offset from the
\* metadata, then the size-prefixed batch of the data
KvSnapshotDecode(snap) ==
    IF ~read_word(BytesIO(snap.meta), 0, 8).ok THEN NoSnapshotBatch
    ELSE SnapshotBatchIn(BytesOfLength(BytesIO(snap.data),
                                       read_int(BytesIO(snap.data), 0, 4)))

(***************************************************************************)
(* storage.py: Ntp (the sorted segment list)                               *)
(***************************************************************************)
\* int(m['base_offset']) of a file name: its decimal digits as a number
RECURSIVE DigitsToInt(_)
DigitsToInt(d) ==
    IF d = <<>> THEN 0
    ELSE 10 * DigitsToInt(SubSeq(d, 1, Len(d) - 1)) + d[Len(d)]

\* a faulty sort key that compares file names by their first digit
_base_offset_first_digit(segment_path) == segment_path.base_offset[1]

_base_offset(segment_path) == DigitsToInt(segment_path.base_offset)

\* sorted(glob.iglob(pattern), key=_base_offset)
RECURSIVE SortedSegments(_)
SortedSegments(paths) ==
    IF paths = {} THEN <<>>
    ELSE LET first == CHOOSE x \in paths :
                         \A y \in paths : _base_offset(x) <= _base_offset(y)
         IN  <<first>> \o SortedSegments(paths \ {first})

(***************************************************************************)
(* The files on disk, as the broker writes them (formats of storage.py and *)
(* kvstore.py read backwards): the inputs of the decoder.                  *)
(***************************************************************************)
RECURSIVE EncUnsignedVarint(_)
EncUnsignedVarint(n) ==
    IF n < 128 THEN <<n>> ELSE <<128 + (n % 128)>> \o EncUnsignedVarint(n \div 128)

EncVarint(n) == EncUnsignedVarint(IF n >= 0 THEN 2 * n ELSE -2 * n - 1)

EncIobuf(b) == LeWord(Len(b), 4) \o b

\* a kvstore value: the optional payload
EncValue(val) == IF val.some THEN <<1>> \o EncIobuf(val.bytes) ELSE <<0>>

\* a record descriptor r = [key, val, od]: key bytes (keyspace byte first), the
\* optional payload, and the offset delta
EncRecordBody(r) ==
    <<0>> \o EncVarint(0) \o EncVarint(r.od)
    \o EncVarint(Len(r.key)) \o r.key
    \o EncVarint(Len(EncValue(r.val))) \o EncValue(r.val)
    \o EncVarint(0)

EncRecord(r) == EncVarint(Len(EncRecordBody(r))) \o EncRecordBody(r)

RECURSIVE EncRecords(_)
EncRecords(rs) == IF rs = <<>> THEN <<>> ELSE EncRecord(Head(rs)) \o EncRecords(Tail(rs))

\* header fields 6..13 for a batch of n records, as words
EncHeaderTail(n) ==
    LeWord(0, 2) \o LeWord(n - 1, 4) \o LeWord(0, 8) \o LeWord(0, 8)
    \o LeWord(-1, 8) \o LeWord(-1, 2) \o LeWord(-1, 4) \o LeWord(n, 4)

\* a batch descriptor b = [type, base_offset, recs] as the bytes of a valid batch
EncBatch(b) ==
    LET records == EncRecords(b.recs)
        tail == EncHeaderTail(Len(b.recs))
        crc == crc32c(records, crc32c(PackBE(Header(Zeros(21) \o tail), 6), Zeros(4)))
        noCrc == LeWord(HEADER_SIZE + Len(records), 4) \o LeWord(b.base_offset, 8)
                 \o LeWord(b.type, 1) \o crc \o tail
    IN  crc32c(noCrc, Zeros(4)) \o noCrc \o records

\* a valid batch of the given type and base offset whose header says n
\* records and whose record region is the bytes records
EncRawBatch(type, base_offset, n, records) ==
    LET tail == EncHeaderTail(n)
        crc == crc32c(records, crc32c(PackBE(Header(Zeros(21) \o tail), 6), Zeros(4)))
        noCrc == LeWord(HEADER_SIZE + Len(records), 4) \o LeWord(base_offset, 8)
                 \o LeWord(type, 1) \o crc \o tail
    IN  crc32c(noCrc, Zeros(4)) \o noCrc \o records

\* a record with the key bytes k and the value bytes v as they are, either
\* of which may be empty
EncRawRecordBody(k, v) ==
    <<0>> \o EncVarint(0) \o EncVarint(0)
    \o EncVarint(Len(k)) \o k \o EncVarint(Len(v)) \o v \o EncVarint(0)

EncRawRecord(k, v) ==
    EncVarint(Len(EncRawRecordBody(k, v))) \o EncRawRecordBody(k, v)

RECURSIVE EncBatches(_)
EncBatches(bs) == IF bs = <<>> THEN <<>> ELSE EncBatch(Head(bs)) \o EncBatches(Tail(bs))

EncSnapshotRecord(r) ==
    LeWord(0, 4) \o <<0>> \o LeWord(0, 8) \o LeWord(r.od, 4)
    \o LeWord(Len(r.key), 4) \o EncIobuf(r.key)
    \o LeWord(Len(EncValue(r.val)), 4) \o EncIobuf(EncValue(r.val))
    \o LeWord(0, 4)

RECURSIVE EncSnapshotRecords(_)
EncSnapshotRecords(rs) ==
    IF rs = <<>> THEN <<>>
    ELSE EncSnapshotRecord(Head(rs)) \o EncSnapshotRecords(Tail(rs))

\* the snapshot file of a batch descriptor b: header, the i64 last offset as
\* metadata, then the size-prefixed batch (header, term, compressed, records)
EncSnapshot(b) ==
    LET body == SubSeq(EncBatch([b EXCEPT !.recs = <<>>]), 1, 57)
                \o LeWord(Len(b.recs), 4) \o LeWord(1, 8) \o <<0>>
                \o EncSnapshotRecords(b.recs)
    IN  Zeros(4) \o Zeros(4) \o <<1>> \o LeWord(8, 4)
        \o LeWord(b.base_offset + Len(b.recs) - 1, 8)
        \o LeWord(Len(body), 4) \o body

\* the decimal digits of a file name's base offset
RECURSIVE Digits(_)
Digits(n) == IF n < 10 THEN <<n>> ELSE Digits(n \div 10) \o <<(n % 10)>>

\* byte i (0-based) of f with bit k (a power of two) flipped
FlipBit(f, i, k) == [f EXCEPT ![i + 1] = XorByte(f[i + 1], k)]

(***************************************************************************)
(* Bounded inputs: what a partition directory may hold                     *)
(***************************************************************************)
\* records in the segments of a directory
MaxRecords == 2

\* batches of the segment whose tail is torn or whose bits are flipped
MaxBaseBatches == 2

\* calls of items() on one KvStore
MaxItemsCalls == 2

KA == <<0, 1>>

KB == <<99, 1>>

V1 == Some(<<11>>)

V2 == Some(<<22>>)

\* record kinds: key, optional payload, and the type of the batch holding it
Pool ==
    {[key |-> KA, val |-> V1, bt |-> 4], [key |-> KA, val |-> V2, bt |-> 4],
     [key |-> KA, val |-> None, bt |-> 4], [key |-> KA, val |-> Some(<<>>), bt |-> 4],
     [key |-> KB, val |-> V1, bt |-> 4], [key |-> KA, val |-> V2, bt |-> 1]}

\* where a record goes: the current batch, a new batch, a new segment file
Cuts == {"same", "batch", "segment"}

Items == [r : Pool, cut : Cuts]

WellFormedItems(its) ==
    /\ its # <<>> => its[1].cut = "segment"
    /\ \A i \in 2..Len(its) : its[i].cut = "same" => its[i].r.bt = its[i - 1].r.bt

ItemSeqs(n) ==
    UNION {{its \in [1..k -> Items] : WellFormedItems(its)} : k \in 0..n}

\* batch j of a directory starts at offset 5 * j
BaseOffsetOf(j) == 5 * j

BatchCount(its, i) == Cardinality({k \in 1..i : its[k].cut # "same"})

SegmentCount(its, i) == Cardinality({k \in 1..i : its[k].cut = "segment"})

\* the batch descriptors of segment n of an item sequence
BatchesOf(its, n) ==
    LET starts == {k \in 1..Len(its) : its[k].cut # "same" /\ SegmentCount(its, k) = n}
        members(k) == {m \in k..Len(its) : BatchCount(its, m) = BatchCount(its, k)}
        batch(k) ==
            [type |-> its[k].r.bt, base_offset |-> BaseOffsetOf(BatchCount(its, k)),
             recs |-> [m \in 1..Cardinality(members(k)) |->
                          [key |-> its[k + m - 1].r.key, val |-> its[k + m - 1].r.val,
                           od |-> m - 1]]]
        RECURSIVE ordered(_)
        ordered(S) == IF S = {} THEN <<>>
                      ELSE LET k == CHOOSE x \in S : \A y \in S : x <= y
                           IN <<batch(k)>> \o ordered(S \ {k})
    IN  ordered(starts)

\* a snapshot descriptor: absent, or one batch of kvstore records
NoSnapshot == [present |-> FALSE, base_offset |-> 0, recs |-> <<>>, crc |-> "written"]

SnapshotAt(o) ==
    [present |-> TRUE, base_offset |-> o, crc |-> "written", recs |-> <<[key |-> KA, val |-> V1, od |-> 0]>>]

Snapshots == {NoSnapshot, SnapshotAt(2), SnapshotAt(12)}

\* the checksum fields of a snapshot file, by position: those of the snapshot
\* header, and header_crc and crc of the header of the embedded batch
\* (which follows the 13 header bytes, 8 metadata bytes and the 4 size bytes)
SnapshotCrcFields ==
    [header_crc |-> 0, metadata_crc |-> 4, batch_header_crc |-> 25, batch_crc |-> 42]

\* a snapshot one of whose checksum fields, or all, hold other bytes
OverwrittenSnapshots ==
    {[SnapshotAt(2) EXCEPT !.crc = c] :
        c \in DOMAIN SnapshotCrcFields \cup {"all"}}

\* the file f with the 4 bytes at pos (0-based) replaced by w
Overwrite(f, pos, w) ==
    [i \in 1..Len(f) |-> IF i \in (pos + 1)..(pos + 4) THEN w[i - pos] ELSE f[i]]

OtherCrc == <<222, 173, 190, 239>>

RECURSIVE OverwriteAll(_, _)
OverwriteAll(f, names) ==
    IF names = {} THEN f
    ELSE LET n == CHOOSE x \in names : TRUE
         IN  OverwriteAll(Overwrite(f, SnapshotCrcFields[n], OtherCrc), names \ {n})

\* the snapshot file f with the checksum fields that c names overwritten
WithCrc(f, c) ==
    IF c = "written" THEN f
    ELSE IF c = "all" THEN OverwriteAll(f, DOMAIN SnapshotCrcFields)
    ELSE Overwrite(f, SnapshotCrcFields[c], OtherCrc)

\* the segment of k one-record batches that tails and flips are tried on
BaseItems(k) ==
    [i \in 1..k |-> [r |-> [key |-> KA, val |-> IF i = 1 THEN V1 ELSE V2, bt |-> 4],
                     cut |-> IF i = 1 THEN "segment" ELSE "batch"]]

\* the bytes of those segments, and of the batch that may follow them
BaseFile ==
    [k \in 0..MaxBaseBatches |->
        IF k = 0 THEN <<>> ELSE EncBatches(BatchesOf(BaseItems(k), 1))]

TornBatches ==
    [j \in 1..(MaxBaseBatches + 1) |->
        EncBatch([type |-> 4, base_offset |-> BaseOffsetOf(j),
                  recs |-> <<[key |-> KA, val |-> V2, od |-> 0]>>])]

\* a valid batch without records (batch_size = HEADER_SIZE) at position j
EmptyBatches ==
    [j \in 1..(MaxBaseBatches + 1) |->
        EncBatch([type |-> 4, base_offset |-> BaseOffsetOf(j), recs |-> <<>>])]

\* a valid batch whose base offset is below that of every batch before it
OlderBatch ==
    EncBatch([type |-> 4, base_offset |-> 0,
              recs |-> <<[key |-> KB, val |-> V1, od |-> 0]>>])

\* the end of a segment file: clean, a zero-filled region (n bytes), a
\* zero-filled header followed by a valid batch, a further batch torn after
\* n bytes, a further batch without records, or a further batch with a
\* lower base offset
NoTail == [kind |-> "clean", n |-> 0]

NoFlip == [on |-> FALSE, byte |-> 0, bit |-> 1]

TornBatch(j) == TornBatches[j]

\* a batch whose header says batch_size = n
ShortBatch(j, n) ==
    SubSeq(TornBatch(j), 1, 4) \o LeWord(n, 4)
    \o SubSeq(TornBatch(j), 9, Len(TornBatch(j)))

\* the record that the batches with a malformed record region are made of
TailRecord == EncRecord([key |-> KA, val |-> V2, od |-> 0])

\* valid batches whose record region does not hold what the header and the
\* lengths say: one record for a record_count of 2, and one record without
\* its last 3 bytes; and valid batches of one record whose key, or whose
\* value, has length 0
OddBatches ==
    [j \in 1..(MaxBaseBatches + 1) |->
        [overcount |-> EncRawBatch(4, BaseOffsetOf(j), 2, TailRecord),
         shortvalue |-> EncRawBatch(4, BaseOffsetOf(j), 1,
                                    SubSeq(TailRecord, 1, Len(TailRecord) - 3)),
         nokey |-> EncRawBatch(4, BaseOffsetOf(j), 1,
                               EncRawRecord(<<>>, EncValue(V2))),
         novalue |-> EncRawBatch(4, BaseOffsetOf(j), 1, EncRawRecord(KA, <<>>))]]

OddKinds == {"overcount", "shortvalue", "nokey", "novalue"}

TailBytes(tail, j) ==
    IF tail.kind = "zero" THEN Zeros(tail.n)
    ELSE IF tail.kind = "zerobatch" THEN Zeros(HEADER_SIZE) \o TornBatch(j)
    ELSE IF tail.kind = "torn" THEN SubSeq(TornBatch(j), 1, tail.n)
    ELSE IF tail.kind = "empty" THEN EmptyBatches[j]
    ELSE IF tail.kind = "older" THEN OlderBatch
    ELSE IF tail.kind = "short" THEN ShortBatch(j, tail.n)
    ELSE IF tail.kind \in OddKinds THEN OddBatches[j][tail.kind]
    ELSE <<>>

Tails ==
    {[kind |-> "zero", n |-> n] : n \in {HEADER_SIZE, HEADER_SIZE + 3}}
    \cup {[kind |-> "zerobatch", n |-> 0]}
    \cup {[kind |-> "torn", n |-> n] : n \in 1..(Len(TornBatch(1)) - 1)}
    \cup {[kind |-> "empty", n |-> 0], [kind |-> "older", n |-> 0]}
    \cup {[kind |-> "short", n |-> n] : n \in {HEADER_SIZE - 1, 0, -HEADER_SIZE}}
    \cup {[kind |-> k, n |-> 0] : k \in OddKinds}

\* the ends tried after k batches: a file is never empty
TailsAfter(k) == IF k = 0 THEN Tails ELSE Tails \cup {NoTail}

\* one flipped bit of the longest of those segments
Flips ==
    {[on |-> TRUE, byte |-> i, bit |-> b] :
        i \in 0..(Len(BaseFile[MaxBaseBatches]) - 1),
        b \in {1, 2, 4, 8, 16, 32, 64, 128}}

\* keys of the typed keyspaces: consensus (type, group 7) with the types
\* 0..5, 6 and -1, storage (type, the bytes of an ntp) with the types 0 and 1
TypedKeys ==
    {<<1, t>> \o LeWord(7, 8) : t \in (0..6) \cup {255}}
    \cup {<<2, t, 5, 6>> : t \in 0..1}

\* values of 8 bytes (an int64), of 20 bytes (a vnode and a term) and of 1 byte
TypedValues ==
    {LeWord(3, 8), LeWord(1, 4) \o LeWord(2, 8) \o LeWord(3, 8), <<9>>}

\* keys with equal remaining bytes under keyspace bytes that name no keyspace
UnknownKeys == {<<7, 1>>, <<99, 1>>, <<200, 1>>}

\* two records with a payload under keys of UnknownKeys
UnknownPairs ==
    {<<[r |-> [key |-> k1, val |-> V1, bt |-> 4], cut |-> "segment"],
       [r |-> [key |-> k2, val |-> V2, bt |-> 4], cut |-> c]>> :
        k1 \in UnknownKeys, k2 \in UnknownKeys, c \in Cuts}

\* the directories decoded twice: two values of one key, a record without
\* payload, and a record in a batch of another type
ReplayedTwice ==
    {its \in ItemSeqs(MaxRecords) :
        \A i \in 1..Len(its) :
            its[i].r.key = KA /\ its[i].r.val \in {V1, V2, None}}

\* the iteration is tried on every flip, decode() on the flips of a lowest bit
FlipModes(f) == IF f.bit = 1 THEN {"decode", "iterate"} ELSE {"iterate"}

Inputs ==
    {[snap |-> sn, items |-> its, tail |-> NoTail, flip |-> NoFlip, mode |-> "decode"] :
        sn \in Snapshots, its \in ItemSeqs(MaxRecords)}
    \cup UNION {{[snap |-> SnapshotAt(2), items |-> BaseItems(k), tail |-> t,
                  flip |-> NoFlip, mode |-> m] :
                    t \in TailsAfter(k), m \in {"decode", "twice"}} :
                   k \in 0..MaxBaseBatches}
    \cup UNION {{[snap |-> SnapshotAt(2), items |-> BaseItems(MaxBaseBatches),
                  tail |-> NoTail, flip |-> f, mode |-> m] : m \in FlipModes(f)} :
                   f \in Flips}
    \cup {[snap |-> SnapshotAt(2),
           items |-> <<[r |-> [key |-> k, val |-> Some(v), bt |-> 4],
                        cut |-> "segment"]>>,
           tail |-> NoTail, flip |-> NoFlip, mode |-> "decode"] :
             k \in TypedKeys, v \in TypedValues}
    \cup {[snap |-> sn, items |-> BaseItems(1), tail |-> NoTail, flip |-> NoFlip,
           mode |-> "decode"] : sn \in OverwrittenSnapshots}
    \cup {[snap |-> SnapshotAt(2), items |-> its, tail |-> NoTail, flip |-> NoFlip,
           mode |-> "decode"] : its \in UnknownPairs}
    \cup {[snap |-> sn, items |-> its, tail |-> NoTail, flip |-> NoFlip,
           mode |-> "redecode"] :
             sn \in {NoSnapshot, SnapshotAt(2)}, its \in ReplayedTwice}
    \cup UNION {{[snap |-> SnapshotAt(2), items |-> BaseItems(k), tail |-> t,
                  flip |-> NoFlip, mode |-> "redecode"] : t \in Tails} :
                   k \in 0..MaxBaseBatches}

\* the segment files of an input
SegmentFile(inp, n) ==
    IF inp.flip.on
    THEN [base_offset |-> Digits(BaseOffsetOf(1)),
          bytes |-> FlipBit(BaseFile[Len(inp.items)], inp.flip.byte, inp.flip.bit)]
    ELSE IF inp.tail # NoTail \/ inp.mode = "twice"
    THEN [base_offset |-> Digits(BaseOffsetOf(1)),
          bytes |-> BaseFile[Len(inp.items)] \o TailBytes(inp.tail, Len(inp.items) + 1)]
    ELSE [base_offset |-> Digits(BatchesOf(inp.items, n)[1].base_offset),
          bytes |-> EncBatches(BatchesOf(inp.items, n))]

SegmentFiles(inp) ==
    IF inp.flip.on \/ inp.tail # NoTail
    THEN {SegmentFile(inp, 1)}
    ELSE {SegmentFile(inp, n) : n \in 1..SegmentCount(inp.items, Len(inp.items))}

SnapshotFileOf ==
    [sn \in Snapshots \cup OverwrittenSnapshots |->
        [present |-> sn.present,
         bytes |-> IF sn.present
                   THEN WithCrc(EncSnapshot([type |-> 4, base_offset |-> sn.base_offset,
                                             recs |-> sn.recs]), sn.crc)
                   ELSE <<>>]]

SnapshotFile(inp) == SnapshotFileOf[inp.snap]

(***************************************************************************)
(* State                                                                   *)
(***************************************************************************)
VARIABLES
    input,       \* how the directory was written (never read by the decoder)
    mode,        \* what the caller does: "decode": KvStore(ntp).decode(), then
                 \* items(); "iterate": for b in Segment(path); "twice": two
                 \* iterations of one Segment, interleaved
    snapshot,    \* the file <ntp.path>/snapshot: [present, bytes]
    segments,    \* Ntp.segments: the *.log files, sorted by base offset
    pc,          \* where the caller is
    raised,      \* the exception that ended the call: [kind, batch]
    kv,          \* KvStore.kv
    data_batch,  \* KvSnapshot.data_batch: [header, records]
    ri,          \* records of data_batch applied so far
    si,          \* segments replayed so far
    it,          \* the BatchIterator: [pos, idx, file] (file position, batch
                 \* index, and whether its file handle is open)
    it2,         \* a second BatchIterator of the same Segment, with what it
                 \* yielded and how it ended: [state, pos, idx, file, yielded, error]
    batch,       \* the batch being iterated and its RecordIter: [b, record_count, pos]
    yielded,     \* history: the batches __next__ returned, with their segment
    applied,     \* history: the entries passed to _apply, with their origin
    items_ret,   \* what the last items() call returned
    first        \* what the first decode() left, once a second one was begun:
                 \* [done, kv, raised, applied]

vars ==
    <<input, mode, snapshot, segments, pc, raised, kv, data_batch, ri, si, it,
      it2, batch, yielded, applied, items_ret, first>>

NoError == [kind |-> "none", batch |-> NoBatch]

NoDataBatch == [header |-> NoBatch.header, records |-> <<>>]

NoRecordIter == [b |-> NoBatch, record_count |-> 0, pos |-> 0, records |-> <<>>]

\* a faulty RecordIter that stops one record early
RecordIterInitShort(b) ==
    [b |-> b, record_count |-> IntOf(b.header.record_count) - 1, pos |-> 0,
     records |-> <<>>]

\* Batch.__iter__, RecordIter.__init__: the records left to yield, the
\* position in the record region, and the records yielded so far
RecordIterInit(b) ==
    [b |-> b, record_count |-> IntOf(b.header.record_count), pos |-> 0,
     records |-> <<>>]

EmptyStore == [k \in {} |-> <<>>]

NotCalled ==
    [called |-> FALSE, ret |-> EmptyBag, error |-> "none", calls |-> 0,
     prev |-> [ret |-> EmptyBag, error |-> "none"]]

\* no BatchIterator constructed yet
NoIterator == [pos |-> 0, idx |-> 0, file |-> "none", calls |-> 0]

\* BatchIterator.__init__: self.file = open(path, "rb"); self.idx = 0
\* calls counts the calls of __next__
BatchIteratorInit == [pos |-> 0, idx |-> 0, file |-> "open", calls |-> 0]

NoSecondIterator ==
    [state |-> "none", pos |-> 0, idx |-> 0, file |-> "none", yielded |-> <<>>,
     error |-> "none", calls |-> 0]

\* no decode() of the KvStore has returned or raised before the one under way
NotDecoded == [done |-> FALSE, kv |-> EmptyStore, raised |-> NoError, applied |-> <<>>]

\* the callers of KvStore.decode(): once, or a second time on the same KvStore
Decoding == {"decode", "redecode"}

\* the callers that only iterate one Segment
Iterating == {"iterate", "twice"}

Init ==
    \E inp \in Inputs :
        /\ input = inp
        /\ mode = inp.mode
        /\ snapshot = SnapshotFile(inp)
        /\ segments = SortedSegments(SegmentFiles(inp))
        /\ pc = "start"
        /\ raised = NoError
        /\ kv = EmptyStore
        /\ data_batch = NoDataBatch
        /\ ri = 0
        /\ si = 0
        /\ it = NoIterator
        /\ it2 = NoSecondIterator
        /\ batch = NoRecordIter
        /\ yielded = <<>>
        /\ applied = <<>>
        /\ items_ret = NotCalled
        /\ first = NotDecoded

Raise(kind, b) ==
    /\ pc' = "raised"
    /\ raised' = [kind |-> kind, batch |-> b]

(***************************************************************************)
(* KvStore.decode(): bootstrap from the snapshot                           *)
(***************************************************************************)
\* a faulty decode() that goes on to the segments without applying the
\* records of the snapshot
BootstrappedSkipping(d) ==
    IF d.ok
    THEN /\ data_batch' = [header |-> d.header, records |-> d.records]
         /\ pc' = "segments"
         /\ UNCHANGED raised
    ELSE /\ Raise("TruncatedInputError", NoBatch)
         /\ UNCHANGED data_batch

Bootstrapped(d) ==
    IF d.ok
    THEN /\ data_batch' = [header |-> d.header, records |-> d.records]
         /\ pc' = "bootstrap"
         /\ UNCHANGED raised
    ELSE /\ Raise("TruncatedInputError", NoBatch)
         /\ UNCHANGED data_batch

\* snap = KvSnapshot(path); snap.decode()
Bootstrap ==
    /\ mode \in Decoding /\ pc = "start"
    /\ IF ~snapshot.present
       THEN /\ Raise("FileNotFoundError", NoBatch)
            /\ UNCHANGED data_batch
       ELSE Bootstrapped(KvSnapshotDecode(SnapshotRead(snapshot.bytes)))
    /\ UNCHANGED <<input, mode, first, snapshot, segments, it2, kv, ri, si, it, batch, yielded,
                   applied, items_ret>>

\* self._apply(d.decode()) for a record of the given origin
Apply(d, src, seg, index) ==
    IF d.kind = "entry"
    THEN /\ kv' = _apply(kv, d.entry)
         /\ applied' = Append(applied, [src |-> src, seg |-> seg, index |-> index,
                                        entry |-> d.entry])
         /\ UNCHANGED <<pc, raised>>
    ELSE /\ Raise(d.kind, NoBatch)
         /\ UNCHANGED <<kv, applied>>

\* one round of "for r in snap.data_batch", or its end
ApplySnapshotRecord ==
    /\ pc = "bootstrap"
    /\ IF ri < Len(data_batch.records)
       THEN /\ Apply(KvStoreRecordDecode(data_batch.records[ri + 1], data_batch.header),
                     "snapshot", 0, 0)
            /\ ri' = ri + 1
       ELSE /\ pc' = "segments"
            /\ UNCHANGED <<kv, applied, ri, raised>>
    /\ UNCHANGED <<input, mode, first, snapshot, segments, it2, data_batch, si, it, batch,
                   yielded, items_ret>>

(***************************************************************************)
(* Segment iteration and replay                                            *)
(***************************************************************************)
\* "for path in self.ntp.segments: s = Segment(path); iter(s)", or the end of
\* the loop, which ends decode()
OpenSegment ==
    /\ mode \in Decoding /\ pc = "segments"
    /\ IF si < Len(segments)
       THEN /\ it' = BatchIteratorInit
            /\ pc' = "batches"
       ELSE /\ pc' = "done"
            /\ UNCHANGED it
    /\ UNCHANGED <<input, mode, first, snapshot, segments, it2, raised, kv, data_batch, ri, si,
                   batch, yielded, applied, items_ret>>

\* iter(Segment(path)) by a caller that only lists the batches of one file
SegmentIter ==
    /\ mode \in Iterating /\ pc = "start"
    /\ it' = BatchIteratorInit
    /\ pc' = "batches"
    /\ UNCHANGED <<input, mode, first, snapshot, segments, it2, raised, kv, data_batch, ri, si,
                   batch, yielded, applied, items_ret>>

\* a faulty __next__ that returns nothing at the end of the stream instead
\* of raising StopIteration, so that the caller calls it again
YieldWithoutStop(b) ==
    /\ it' = [it EXCEPT !.pos = b.pos, !.calls = @ + 1,
                        !.idx = IF b.kind = "Batch" THEN @ + 1 ELSE @]
    /\ IF b.kind = "Batch"
       THEN /\ yielded' = Append(yielded, [seg |-> si + 1, b |-> b.batch])
            /\ batch' = RecordIterInit(b.batch)
            /\ pc' = IF mode \in Decoding THEN "records" ELSE "batches"
            /\ UNCHANGED <<raised, si>>
       ELSE IF b.kind = "None"
       THEN UNCHANGED <<pc, si, raised, yielded, batch>>
       ELSE /\ Raise(b.kind, b.batch)
            /\ UNCHANGED <<si, yielded, batch>>

\* what __next__ does with the result b of Batch.from_stream
Yield(b) ==
    /\ it' = [it EXCEPT !.pos = b.pos, !.calls = @ + 1,
                        !.idx = IF b.kind = "Batch" THEN @ + 1 ELSE @]
    /\ IF b.kind = "Batch"
       THEN /\ yielded' = Append(yielded, [seg |-> si + 1, b |-> b.batch])
            /\ batch' = RecordIterInit(b.batch)
            /\ pc' = IF mode \in Decoding THEN "records" ELSE "batches"
            /\ UNCHANGED <<raised, si>>
       ELSE IF b.kind = "None"
       THEN /\ pc' = IF mode \in Decoding THEN "segments" ELSE "stopped"
            /\ si' = IF mode \in Decoding THEN si + 1 ELSE si
            /\ UNCHANGED <<raised, yielded, batch>>
       ELSE /\ Raise(b.kind, b.batch)
            /\ UNCHANGED <<si, yielded, batch>>

\* BatchIterator.__next__
BatchIteratorNext ==
    /\ pc = "batches"
    /\ Yield(from_stream(segments[si + 1].bytes, it.pos, it.idx))
    /\ UNCHANGED <<input, mode, first, snapshot, segments, it2, kv, data_batch, ri, applied,
                   items_ret>>

\* a faulty loop whose RecordIter stops at a record it cannot read in full
ReplayStoppingShort(r) ==
    IF ~r.ok
    THEN /\ pc' = "batches"
         /\ batch' = [batch EXCEPT !.record_count = 0]
         /\ UNCHANGED <<raised, kv, applied>>
    ELSE /\ batch' = [batch EXCEPT !.record_count = @ - 1, !.pos = r.pos,
                                   !.records = Append(@, r.v)]
         /\ Apply(KvStoreRecordDecode(r.v, batch.b.header), "segment", si + 1,
                  batch.b.index)

\* what the loop body does with the result r of RecordIter.__next__
Replay(r) ==
    IF ~r.ok
    THEN /\ Raise("TruncatedInputError", NoBatch)
         /\ batch' = [batch EXCEPT !.record_count = @ - 1]
         /\ UNCHANGED <<kv, applied>>
    ELSE /\ batch' = [batch EXCEPT !.record_count = @ - 1, !.pos = r.pos,
                                   !.records = Append(@, r.v)]
         /\ Apply(KvStoreRecordDecode(r.v, batch.b.header), "segment", si + 1,
                  batch.b.index)

\* one round of "for r in batch": RecordIter.__next__, then
\* KvStoreRecordDecoder(r, batch.header).decode() and _apply
ReplayRecord ==
    /\ pc = "records"
    /\ IF batch.record_count = 0
       THEN /\ pc' = "batches"
            /\ UNCHANGED <<raised, kv, applied, batch>>
       ELSE Replay(parse_record(batch.b.records, batch.pos))
    /\ UNCHANGED <<input, mode, first, snapshot, segments, it2, data_batch, ri, si, it, yielded,
                   items_ret>>

\* BatchIterator.__del__, run when the collector finalizes the iterator:
\* some time after the loop over it has ended, or never
BatchIteratorDel ==
    /\ pc \in {"segments", "done", "stopped", "raised"}
    /\ it.file = "open"
    /\ it' = [it EXCEPT !.file = "closed"]
    /\ UNCHANGED <<input, mode, first, snapshot, segments, it2, pc, raised, kv, data_batch,
                   ri, si, batch, yielded, applied, items_ret>>

(***************************************************************************)
(* A second iteration of the same Segment                                  *)
(***************************************************************************)
\* a faulty second iteration that reads on from where the stream of the
\* first one stands instead of opening the file anew
SharedStreamInit ==
    [state |-> "batches", pos |-> it.pos, idx |-> it.idx, file |-> "open",
     yielded |-> <<>>, error |-> "none", calls |-> 0]

\* the cursor a new iteration starts with
SecondIteratorInit ==
    [state |-> "batches", pos |-> 0, idx |-> 0, file |-> "open", yielded |-> <<>>,
     error |-> "none", calls |-> 0]

\* iter(segment) once more, while the first iteration is under way or over
SegmentIterAgain ==
    /\ mode = "twice" /\ pc # "start"
    /\ it2.state = "none"
    /\ it2' = SecondIteratorInit
    /\ UNCHANGED <<input, mode, first, snapshot, segments, pc, raised, kv, data_batch, ri,
                   si, it, batch, yielded, applied, items_ret>>

\* what __next__ of the second iterator does with the result b of
\* Batch.from_stream
YieldAgain(b) ==
    it2' = [state |-> IF b.kind = "Batch" THEN "batches"
                      ELSE IF b.kind = "None" THEN "stopped" ELSE "raised",
            pos |-> b.pos,
            idx |-> IF b.kind = "Batch" THEN it2.idx + 1 ELSE it2.idx,
            file |-> it2.file,
            yielded |-> IF b.kind = "Batch" THEN Append(it2.yielded, b.batch)
                        ELSE it2.yielded,
            error |-> IF b.kind \in {"Batch", "None"} THEN "none" ELSE b.kind,
            calls |-> it2.calls + 1]

\* BatchIterator.__next__ of the second iterator
BatchIteratorNextAgain ==
    /\ it2.state = "batches"
    /\ YieldAgain(from_stream(segments[1].bytes, it2.pos, it2.idx))
    /\ UNCHANGED <<input, mode, first, snapshot, segments, pc, raised, kv, data_batch, ri,
                   si, it, batch, yielded, applied, items_ret>>

\* BatchIterator.__del__ of the second iterator
BatchIteratorDelAgain ==
    /\ it2.state \in {"stopped", "raised"}
    /\ it2.file = "open"
    /\ it2' = [it2 EXCEPT !.file = "closed"]
    /\ UNCHANGED <<input, mode, first, snapshot, segments, pc, raised, kv, data_batch, ri,
                   si, it, batch, yielded, applied, items_ret>>

(***************************************************************************)
(* KvStore.items() and the key/value decoders of kvstore.py                *)
(***************************************************************************)
\* bytes.hex(): two hexadecimal digits (0..15) per byte, high digit first
RECURSIVE hex(_)
hex(b) ==
    IF b = <<>> THEN <<>>
    ELSE <<(Head(b) \div 16), (Head(b) % 16)>> \o hex(Tail(b))

decode_raft_meta_key(type) ==
    IF type = 0 THEN "voted for"
    ELSE IF type = 1 THEN "configuration map"
    ELSE IF type = 2 THEN "last known config offset"
    ELSE IF type = 3 THEN "last applied offset"
    ELSE IF type = 4 THEN "local id"
    ELSE IF type = 5 THEN "next cfg idx"
    ELSE "unknown"

decode_storage_key_name(key_type) == IF key_type = 0 THEN "start offset" ELSE "unknown"

\* the decoded key of a typed keyspace: key.v is what was read after the
\* type byte
TypedKey(kind, name, type, key) ==
    [kind |-> kind, ok |-> type.ok /\ key.ok, type |-> type.v, name |-> name,
     body |-> key.v]

\* decode_raft_key: type (int8), its name, group (int64)
decode_raft_key(k) ==
    TypedKey("raft", decode_raft_meta_key(read_int(k, 0, 1).v), read_int(k, 0, 1),
             read_word(k, 1, 8))

\* read_ntp(rdr) of model.py: the bytes after the type byte, as they are
read_ntp(k, pos) == [ok |-> TRUE, v |-> Read(k, pos, -1), pos |-> Len(k)]

\* decode_storage_key: type (int8), its name, the ntp
decode_storage_key(k) ==
    TypedKey("storage", decode_storage_key_name(read_int(k, 0, 1).v),
             read_int(k, 0, 1), read_ntp(k, 1))

decode_key(ks, key) ==
    [keyspace |-> ks,
     data |-> IF ks = "consensus" THEN decode_raft_key(key)
              ELSE IF ks = "storage" THEN decode_storage_key(key)
              ELSE [kind |-> "hex", ok |-> TRUE, type |-> 0, name |-> "", body |-> hex(key)]]

\* a decoded value: what it is (kind) and the digits or words it holds;
\* kind "error" when a read runs past the end of the value
ValueOf(kind, r) ==
    IF r.ok THEN [kind |-> kind, body |-> r.v] ELSE [kind |-> "error", body |-> <<>>]

NoneValue == [kind |-> "None", body |-> <<>>]

EmptyDict == [kind |-> "dict", body |-> <<>>]

\* read_confiugrations_map: the count (uint64), then that many pairs of an
\* offset (int64) and a raft configuration of model.py; the pairs are kept
\* as the bytes they are read from
read_confiugrations_map(v) ==
    IF ~read_word(v, 0, 8).ok THEN [kind |-> "error", body |-> <<>>]
    ELSE IF AllZero(read_word(v, 0, 8).v) THEN [kind |-> "config_map", body |-> <<>>]
    ELSE IF ~read_word(v, 8, 8).ok THEN [kind |-> "error", body |-> <<>>]
    ELSE [kind |-> "config_map", body |-> Read(v, 8, -1)]

decode_raft_value(type, v) ==
    IF type = 0 THEN ValueOf("voted_for", read_word(v, 0, 20))
    ELSE IF type = 1 THEN read_confiugrations_map(v)
    ELSE IF type = 2 THEN ValueOf("int64", read_word(v, 0, 8))
    ELSE IF type = 3 THEN ValueOf("int64", read_word(v, 0, 8))
    ELSE IF type = 4 THEN NoneValue
    ELSE IF type = 5 THEN ValueOf("int64", read_word(v, 0, 8))
    ELSE NoneValue

decode_storage_value(type, v) ==
    IF type = 0 THEN ValueOf("int64", read_word(v, 0, 8))
    ELSE EmptyDict

decode_value(dk, v) ==
    IF dk.keyspace = "consensus" THEN decode_raft_value(dk.data.type, v)
    ELSE IF dk.keyspace = "storage" THEN decode_storage_value(dk.data.type, v)
    ELSE [kind |-> "hex", body |-> hex(v)]

ItemOf(dk, v) == [key |-> dk, value |-> decode_value(dk, v)]

\* the {key, value} that items() appends for the entry k of the map
ItemAt(store, k) == ItemOf(decode_key(k[1], k[2]), store[k])

\* KvStore.items(): the list ret, one {key, value} per entry of the map, as
\* the bag of its elements
items(store) ==
    [e \in {ItemAt(store, k) : k \in DOMAIN store} |->
        Cardinality({k \in DOMAIN store : ItemAt(store, k) = e})]

\* whether decode_key or decode_value raises on an entry of the map
ItemsRaises(store) ==
    \E k \in DOMAIN store :
        \/ ~ItemAt(store, k).key.data.ok
        \/ (ItemAt(store, k).key.data.ok /\ ItemAt(store, k).value.kind = "error")

\* what a call of items() on the map store leaves in items_ret: what it
\* returns or raises, the number of calls so far, and what the call before
\* it returned or raised
ItemsCall(store) ==
    [called |-> TRUE,
     ret |-> IF ItemsRaises(store) THEN EmptyBag ELSE items(store),
     error |-> IF ItemsRaises(store) THEN "TruncatedInputError" ELSE "none",
     calls |-> items_ret.calls + 1,
     prev |-> [ret |-> items_ret.ret, error |-> items_ret.error]]

\* a faulty items() that takes the entries out of the map as it reports them
KvStoreItemsDraining ==
    /\ mode = "decode" /\ pc \in {"done", "raised"}
    /\ items_ret.calls < MaxItemsCalls
    /\ items_ret' = ItemsCall(kv)
    /\ kv' = EmptyStore
    /\ UNCHANGED <<input, mode, first, snapshot, segments, it2, pc, raised, data_batch, ri, si,
                   it, batch, yielded, applied>>

\* a call of KvStore.items() once decode() has returned or raised
KvStoreItems ==
    /\ mode = "decode" /\ pc \in {"done", "raised"}
    /\ items_ret.calls < MaxItemsCalls
    /\ items_ret' = ItemsCall(kv)
    /\ UNCHANGED <<input, mode, first, snapshot, segments, it2, pc, raised, kv, data_batch, ri, si,
                   it, batch, yielded, applied>>

\* a faulty second call that finds the segment list used up, as a one-shot
\* iterator over the directory would be
KvStoreDecodeAgainExhausted ==
    /\ mode = "redecode" /\ pc \in {"done", "raised"} /\ ~first.done
    /\ first' = [done |-> TRUE, kv |-> kv, raised |-> raised, applied |-> applied]
    /\ pc' = "start" /\ raised' = NoError
    /\ data_batch' = NoDataBatch /\ ri' = 0 /\ si' = Len(segments)
    /\ it' = NoIterator /\ batch' = NoRecordIter
    /\ yielded' = <<>> /\ applied' = <<>>
    /\ UNCHANGED <<input, mode, snapshot, segments, it2, kv, items_ret>>

\* a second call of decode() on the same KvStore once the first has returned
\* or raised: self.kv and self.ntp.segments are kept, the snapshot and the
\* iterators are local to a call.  The histories start again.
KvStoreDecodeAgain ==
    /\ mode = "redecode" /\ pc \in {"done", "raised"} /\ ~first.done
    /\ first' = [done |-> TRUE, kv |-> kv, raised |-> raised, applied |-> applied]
    /\ pc' = "start" /\ raised' = NoError
    /\ data_batch' = NoDataBatch /\ ri' = 0 /\ si' = 0
    /\ it' = NoIterator /\ batch' = NoRecordIter
    /\ yielded' = <<>> /\ applied' = <<>>
    /\ UNCHANGED <<input, mode, snapshot, segments, it2, kv, items_ret>>

Next ==
    \/ Bootstrap
    \/ ApplySnapshotRecord
    \/ OpenSegment
    \/ SegmentIter
    \/ BatchIteratorNext
    \/ ReplayRecord
    \/ BatchIteratorDel
    \/ SegmentIterAgain
    \/ BatchIteratorNextAgain
    \/ BatchIteratorDelAgain
    \/ KvStoreItems
    \/ KvStoreDecodeAgain

Spec == Init /\ [][Next]_vars

\* The caller of an iteration goes on calling next() until it ends: weak
\* fairness of the two __next__ actions.  A call always counts (calls), so
\* each is enabled exactly while its iteration is under way, and the
\* fairness is stated with that condition written out.
FairSpec ==
    /\ Spec
    /\ ([]<>(pc # "batches") \/ []<><<BatchIteratorNext>>_vars)
    /\ ([]<>(it2.state # "batches") \/ []<><<BatchIteratorNextAgain>>_vars)

(***************************************************************************)
(* What a directory was written to hold, for stating the properties        *)
(***************************************************************************)
\* the store key of a record key: keyspace name and the remaining bytes
StoreKey(key) == <<_decode_ks(key[1]), Tail(key)>>

\* a value that writes: its optional payload is present and not empty
HasPayload(val) == val.some /\ val.bytes # <<>>

\* the segment records of the input that write the key, by position
WritesTo(key) ==
    {i \in 1..Len(input.items) :
        input.items[i].r.key = key /\ HasPayload(input.items[i].r.val)}

Last(S) == CHOOSE i \in S : \A j \in S : j <= i

\* the map obtained by applying the writes of a sequence of records in order
RECURSIVE StoreOf(_)
StoreOf(recs) ==
    IF recs = <<>> THEN EmptyStore
    ELSE LET rest == StoreOf(SubSeq(recs, 1, Len(recs) - 1))
             r == recs[Len(recs)]
         IN  IF HasPayload(r.val)
             THEN [k \in DOMAIN rest \cup {StoreKey(r.key)} |->
                      IF k = StoreKey(r.key) THEN r.val.bytes ELSE rest[k]]
             ELSE rest

\* the segment records of the input, in file order
SegmentRecords == [i \in 1..Len(input.items) |-> input.items[i].r]

Terminated == pc \in {"done", "stopped", "raised"}

\* the input is a set of whole, unmodified files
Intact == input.tail = NoTail /\ ~input.flip.on

\* the length of each batch of the segment whose bits are flipped
FlippedBatchSize == Len(BaseFile[1])

\* the batch (0-based) a flipped byte lies in, and its offset within it
FlippedBatch == input.flip.byte \div FlippedBatchSize

FlippedOffset == input.flip.byte % FlippedBatchSize

\* the entries applied from segments
AppliedFromSegments == {i \in 1..Len(applied) : applied[i].src = "segment"}

(***************************************************************************)
(* Properties                                                              *)
(***************************************************************************)
\* C1: last writer wins across snapshot and log.  When decode() has
\* completed, every key that the snapshot sets and that a segment record
\* sets afterwards with a present, non-empty payload maps to the payload of
\* the last such segment record, not to the snapshot's value.
LastWriterWins ==
    pc = "done" =>
        \A n \in 1..Len(input.snap.recs) :
            LET key == input.snap.recs[n].key IN
            (HasPayload(input.snap.recs[n].val) /\ WritesTo(key) # {}) =>
                /\ StoreKey(key) \in DOMAIN kv
                /\ kv[StoreKey(key)] = input.items[Last(WritesTo(key))].r.val.bytes

\* C1 witness: decode() completed on a snapshot setting KA to V1 and a
\* segment record setting KA to V2, and the store holds V2 for KA.
LastWriterWinsWitness ==
    /\ pc = "done"
    /\ input.snap.present /\ input.snap.recs[1].key = KA /\ input.snap.recs[1].val = V1
    /\ WritesTo(KA) # {} /\ input.items[Last(WritesTo(KA))].r.val = V2
    /\ kv[StoreKey(KA)] = V2.bytes

\* C2: later offsets always supersede earlier ones.  When decode() has
\* completed, the value stored for a key is the payload of the applied
\* record with the greatest absolute offset (base_offset + offset_delta)
\* among all records that write the key, in the snapshot and in all
\* segments, whatever order they were met in.
GreatestOffsetWins ==
    pc = "done" =>
        \A i \in 1..Len(applied) :
            LET e == applied[i].entry
                key == <<e.key_space, e.key_buf>>
            IN  (/\ e.data # None
                 /\ \A j \in 1..Len(applied) :
                       (/\ applied[j].entry.key_space = e.key_space
                        /\ applied[j].entry.key_buf = e.key_buf
                        /\ applied[j].entry.data # None)
                       => applied[j].entry.offset <= e.offset)
                => kv[key] = e.data.bytes

\* C3: truncation tolerance.  Iterating a segment that ends part-way through
\* the body of a batch (its header complete) after N whole batches yields
\* exactly those N batches and stops without an exception.
TruncationTolerance ==
    (/\ mode \in Iterating /\ Terminated
     /\ input.tail.kind = "torn" /\ input.tail.n > HEADER_SIZE)
    => /\ pc = "stopped"
       /\ raised = NoError
       /\ Len(yielded) = Len(input.items)

\* C4: a short header is a clean end of stream.  Iterating a segment that
\* ends with 1..HEADER_SIZE-1 bytes after its last whole batch stops
\* normally after the batches before, raising nothing.
ShortHeaderEndsStream ==
    (/\ mode \in Iterating /\ Terminated
     /\ input.tail.kind = "torn" /\ input.tail.n < HEADER_SIZE)
    => /\ pc = "stopped"
       /\ raised = NoError
       /\ Len(yielded) = Len(input.items)

\* both checksums of a batch, recomputed from its header and record bytes
ChecksumsMatch(b) ==
    /\ b.header.header_crc = crc32c(PackLE(b.header, 2), Zeros(4))
    /\ b.header.crc = crc32c(PackBE(b.header, 6) \o b.records, Zeros(4))

\* C5: CRC validity of every yielded batch.  No batch has been yielded
\* initially, and every step that yields batches appends them to the ones
\* yielded before, each with header_crc equal to the CRC32C of the fields
\* 2..13 packed little-endian and crc equal to the CRC32C of the fields 6..13
\* packed big-endian followed by the record bytes.  (The step that begins
\* a second decode() yields nothing: it starts the history again.)
YieldedBatchesValid ==
    /\ yielded = <<>>
    /\ [][IF first' # first
          THEN yielded' = <<>>
          ELSE /\ Len(yielded') >= Len(yielded)
               /\ SubSeq(yielded', 1, Len(yielded)) = yielded
               /\ \A i \in (Len(yielded) + 1)..Len(yielded') :
                     ChecksumsMatch(yielded'[i].b)]_vars

\* C5 witness: the first batch of a file was yielded although a bit of the
\* second batch is flipped, and the iteration ended there.
YieldedBatchesValidWitness ==
    /\ input.flip.on /\ FlippedBatch = 1
    /\ pc = "raised"
    /\ Len(yielded) = 1

\* C6: CRC enforcement on modification.  When one bit of a valid batch is
\* changed in the record region or in the header outside header_crc (the
\* batch_size field included), the iteration of that segment ends with
\* CorruptBatchError, not with a yielded batch, a silent end or another error.
CrcEnforcement ==
    (/\ mode \in Iterating /\ Terminated
     /\ input.flip.on /\ FlippedOffset >= 4)
    => /\ pc = "raised"
       /\ raised.kind = "CorruptBatchError"
       /\ raised.batch.index = FlippedBatch

NoPartialResult ==
    (/\ items_ret.called
     /\ raised.kind \in {"CorruptBatchError", "TruncatedInputError"})
    => items_ret.ret = EmptyBag

\* C9: non-matching batch types are skipped.  Replaying whole files whose
\* segments hold a batch of a type other than 4 raises nothing, and when
\* decode() has completed the store is what the snapshot record and the
\* records of the batches of type 4 write, in order.
OtherBatchTypesSkipped ==
    (/\ mode = "decode" /\ Intact /\ input.snap.present
     /\ \E i \in 1..Len(input.items) : input.items[i].r.bt # KVSTORE_BATCH_TYPE)
    => /\ raised = NoError
       /\ pc = "done" =>
             kv = StoreOf(input.snap.recs
                          \o SelectSeq(SegmentRecords,
                                       LAMBDA r : r.bt = KVSTORE_BATCH_TYPE))

\* C10: an absent snapshot is acceptable.  When the directory has no
\* snapshot file, decode() raises nothing, and when it has completed the
\* store is what the segment records write, in order, over an empty map.
AbsentSnapshotAcceptable ==
    (/\ mode = "decode" /\ ~snapshot.present /\ Intact
     /\ \A i \in 1..Len(input.items) : input.items[i].r.bt = KVSTORE_BATCH_TYPE)
    => /\ raised = NoError
       /\ pc = "done" => kv = StoreOf(SegmentRecords)

\* the entries applied from the snapshot
AppliedFromSnapshot == {i \in 1..Len(applied) : applied[i].src = "snapshot"}

NameOffset(n) == DigitsToInt(segments[n].base_offset)

\* the i-th applied entry is the write of the record r of the input
AppliedIs(i, r) ==
    /\ <<applied[i].entry.key_space, applied[i].entry.key_buf>> = StoreKey(r.key)
    /\ applied[i].entry.data = (IF HasPayload(r.val) THEN r.val ELSE None)

\* segments are listed by ascending numeric base offset; batches are applied
\* in file order and records in batch order; on whole files the entries
\* applied from segments are the records of the input in the order written
ReplayedInFileOrder ==
    /\ \A a, b \in 1..Len(segments) : a < b => NameOffset(a) < NameOffset(b)
    /\ \A i, j \in AppliedFromSegments :
          i < j =>
             /\ applied[i].seg <= applied[j].seg
             /\ applied[i].seg = applied[j].seg => applied[i].index <= applied[j].index
             /\ (applied[i].seg = applied[j].seg /\ applied[i].index = applied[j].index)
                   => applied[i].entry.offset < applied[j].entry.offset
    /\ (mode = "decode" /\ Intact) =>
          /\ Cardinality(AppliedFromSegments) <= Len(input.items)
          /\ \A i \in AppliedFromSegments :
                AppliedIs(i, input.items[i - Cardinality(AppliedFromSnapshot)].r)

\* C12: segment replay order.  The segments are replayed in ascending
\* numeric order of the base offset of the file name (5-1-v1.log before
\* 10-1-v1.log), batches in file order and records in batch order; a record
\* of segment i is never applied before a record of segment j when
\* base_offset(i) > base_offset(j).
SegmentReplayOrder ==
    /\ ReplayedInFileOrder
    /\ \A i, j \in AppliedFromSegments :
          NameOffset(applied[i].seg) > NameOffset(applied[j].seg) => ~(i < j)

\* C12 as stated: the same, with the last part as the claim words it: a
\* record of segment i is never applied after a record of segment j when
\* base_offset(i) > base_offset(j).
SegmentReplayOrderAsStated ==
    /\ ReplayedInFileOrder
    /\ \A i, j \in AppliedFromSegments :
          NameOffset(applied[i].seg) > NameOffset(applied[j].seg) => ~(i > j)

\* C12 witness: decode() completed on the segments 5-1-v1.log and
\* 10-1-v1.log, a record of the first applied before a record of the second.
SegmentReplayOrderWitness ==
    /\ pc = "done"
    /\ Len(segments) >= 2 /\ NameOffset(1) = 5 /\ NameOffset(2) = 10
    /\ \E i, j \in AppliedFromSegments :
          i < j /\ applied[i].seg = 1 /\ applied[j].seg = 2

\* C13: all-zero sentinel.  On a segment whose batches are followed by a
\* zero-filled region of at least HEADER_SIZE bytes (or that holds nothing
\* else), the all-zero header ends the stream: nothing is raised, no batch
\* beyond those before the region is yielded, and an iteration that has
\* ended has yielded exactly those, none for a file of zero bytes only.
AllZeroSentinel ==
    input.tail.kind \in {"zero", "zerobatch"} =>
        /\ raised = NoError /\ pc # "raised"
        /\ it2.error = "none" /\ it2.state # "raised"
        /\ Len(yielded) <= Len(input.items)
        /\ Len(it2.yielded) <= Len(input.items)
        /\ pc \in {"stopped", "done"} => Len(yielded) = Len(input.items)
        /\ it2.state = "stopped" => Len(it2.yielded) = Len(input.items)

\* C13 witness: the iteration of a file of HEADER_SIZE + 3 zero bytes and
\* nothing else has ended normally without a batch.
AllZeroSentinelWitness ==
    /\ input.items = <<>>
    /\ input.tail = [kind |-> "zero", n |-> HEADER_SIZE + 3]
    /\ AllZero(segments[1].bytes)
    /\ pc = "stopped" /\ yielded = <<>> /\ raised = NoError

\* the store keys that an applied entry wrote
WrittenKeys ==
    {<<applied[i].entry.key_space, applied[i].entry.key_buf>> :
        i \in {j \in 1..Len(applied) : applied[j].entry.data # None}}

\* the entries of a bag of items whose key is the decoded key dk
EntriesFor(bag, dk) == {e \in BagToSet(bag) : e.key = dk}

\* C14: keys are unique in the materialized view.  What items() returns
\* holds as many entries as there are distinct (keyspace, key bytes) pairs
\* that an applied record wrote, and for each such pair exactly one entry,
\* occurring once.
UniqueItems ==
    (items_ret.called /\ items_ret.error = "none") =>
        /\ BagCardinality(items_ret.ret) = Cardinality(WrittenKeys)
        /\ \A k \in WrittenKeys :
              /\ Cardinality(EntriesFor(items_ret.ret, decode_key(k[1], k[2]))) = 1
              /\ \A e \in EntriesFor(items_ret.ret, decode_key(k[1], k[2])) :
                    CopiesIn(e, items_ret.ret) = 1

\* C14 witness: items() was called after a decode() that applied two
\* writes of different values to one key, and returned one entry.
UniqueItemsWitness ==
    /\ items_ret.called /\ pc = "done"
    /\ \E i, j \in 1..Len(applied) :
          /\ i < j
          /\ applied[i].entry.key_buf = applied[j].entry.key_buf
          /\ applied[i].entry.key_space = applied[j].entry.key_space
          /\ applied[i].entry.data # None /\ applied[j].entry.data # None
          /\ applied[i].entry.data # applied[j].entry.data
    /\ BagCardinality(items_ret.ret) = 1

\* the batches of the first iteration, without the segment they came from
YieldedBatches == [i \in 1..Len(yielded) |-> yielded[i].b]

\* C15: restartable iteration.  Two iterations of one Segment, the second
\* begun at any point of the first (interleaved with it, or after it ended
\* or was left unfinished), yield the same batches in the same order: at
\* every moment one of the two sequences is a prefix of the other, and when
\* both have ended they are equal and ended the same way.
RestartableIteration ==
    mode = "twice" =>
        /\ \A i \in 1..Len(yielded) :
              i <= Len(it2.yielded) => it2.yielded[i] = YieldedBatches[i]
        /\ (pc \in {"stopped", "raised"} /\ it2.state \in {"stopped", "raised"}) =>
              /\ it2.yielded = YieldedBatches
              /\ (pc = "stopped") <=> (it2.state = "stopped")
              /\ raised.kind = it2.error

\* C15 witness: the first iteration has yielded one batch and is still
\* under way while the second, begun meanwhile, has yielded that batch and
\* the next one and has ended.
RestartableIterationWitness ==
    /\ mode = "twice"
    /\ pc = "batches" /\ Len(yielded) = 1
    /\ it2.state = "stopped" /\ Len(it2.yielded) = 2
    /\ it2.yielded[1] = yielded[1].b

\* C16: batches are yielded in increasing base_offset order.  For any two
\* batches yielded by one iteration of a Segment, the one yielded first has
\* the smaller header.base_offset.
IncreasingBaseOffset ==
    mode \in Iterating =>
        \A i, j \in 1..Len(yielded) :
            i < j => IntOf(yielded[i].b.header.base_offset)
                        < IntOf(yielded[j].b.header.base_offset)

\* C17: the file is closed when iteration ends.  Once an iteration of a
\* Segment has reached the end of the stream or has ended with an error,
\* the file it opened is closed, whether or not the iterator object has
\* been finalized.
FileClosedAtEnd ==
    /\ (mode \in Iterating /\ pc \in {"stopped", "raised"}) => it.file = "closed"
    /\ it2.state \in {"stopped", "raised"} => it2.file = "closed"

\* the calls of __next__ an iteration of the file f can make at most: one
\* per HEADER_SIZE bytes, and the one that ends it
MaxCalls(f) == Len(f) \div HEADER_SIZE + 1

\* C18: Segment iteration is finite.  Under repeated calls of next(), an
\* iteration that is under way ends, with StopIteration or with an error,
\* whatever the headers of the file say, a batch_size of HEADER_SIZE and
\* one below HEADER_SIZE included; and the calls it makes never exceed one
\* per HEADER_SIZE bytes of the file plus one.
FiniteIteration ==
    /\ (mode \in Iterating /\ pc = "batches") ~> (pc \in {"stopped", "raised"})
    /\ (it2.state = "batches") ~> (it2.state \in {"stopped", "raised"})
    /\ [](mode \in Iterating =>
            /\ it.calls <= MaxCalls(segments[1].bytes)
            /\ it2.calls <= MaxCalls(segments[1].bytes))

\* the batch_size of the header at the start of the last batch-sized slot
\* of the iterated file
LastHeaderBatchSize ==
    IntOf(Header(Read(segments[1].bytes, Len(input.items) * FlippedBatchSize,
                      HEADER_SIZE)).batch_size)

\* C18 witness: an iteration has ended with an error at a header whose
\* batch_size is below HEADER_SIZE, after yielding the batches before it.
FiniteIterationWitness ==
    /\ mode \in Iterating /\ input.tail.kind = "short"
    /\ LastHeaderBatchSize < HEADER_SIZE
    /\ Len(yielded) = Len(input.items) /\ Len(yielded) > 0
    /\ pc = "raised"

\* the segment records of the input whose first key byte names no keyspace
UnknownKeyspaceRecords ==
    {i \in 1..Len(input.items) : input.items[i].r.key[1] \notin 0..3}

\* what items() is to report for a key of an unknown keyspace and its value
UnknownItem(key, bytes) ==
    [key |-> [keyspace |-> "unknown",
              data |-> [kind |-> "hex", ok |-> TRUE, type |-> 0, name |-> "",
                        body |-> hex(Tail(key))]],
     value |-> [kind |-> "hex", body |-> hex(bytes)]]

\* the records after the i-th that write the store key of the i-th
LaterWriters(i) ==
    {j \in (i + 1)..Len(input.items) :
        /\ StoreKey(input.items[j].r.key) = StoreKey(input.items[i].r.key)
        /\ HasPayload(input.items[j].r.val)}

\* C19: an unknown keyspace degrades instead of failing.  When the segments
\* of an intact directory with a snapshot hold kvstore batches only and
\* some record's first key byte is not 0, 1, 2 or 3, decode() raises
\* nothing; when it has completed, the store holds the value of each such
\* record with a payload under ("unknown", remaining key bytes), unless a
\* later record wrote that store key; and items() raises nothing and
\* reports the entry with keyspace "unknown", the remaining key bytes as
\* hex digits and the value bytes as hex digits.
UnknownKeyspaceDegrades ==
    (/\ mode = "decode" /\ Intact /\ input.snap.present
     /\ \A i \in 1..Len(input.items) :
           input.items[i].r.bt = KVSTORE_BATCH_TYPE
     /\ UnknownKeyspaceRecords # {})
    => /\ raised = NoError
       /\ items_ret.called => items_ret.error = "none"
       /\ \A i \in UnknownKeyspaceRecords :
             LET r == input.items[i].r IN
             HasPayload(r.val) =>
                /\ pc = "done" => <<"unknown", Tail(r.key)>> \in DOMAIN kv
                /\ (pc = "done" /\ LaterWriters(i) = {}) =>
                      kv[<<"unknown", Tail(r.key)>>] = r.val.bytes
                /\ (items_ret.called /\ LaterWriters(i) = {}) =>
                      CopiesIn(UnknownItem(r.key, r.val.bytes), items_ret.ret) = 1

\* C19 witness: items() has reported the record with key bytes 99, 1 and
\* value byte 11 as keyspace "unknown", key 01, value 0b, next to an entry
\* of a known keyspace.
UnknownKeyspaceDegradesWitness ==
    /\ pc = "done" /\ items_ret.called /\ Intact
    /\ \E i \in 1..Len(input.items) :
          input.items[i].r = [key |-> <<99, 1>>, val |-> Some(<<11>>), bt |-> 4]
    /\ \E e \in BagToSet(items_ret.ret) :
          /\ e.key.keyspace = "unknown" /\ e.key.data.body = <<0, 1>>
          /\ e.value.body = <<0, 11>>
    /\ BagCardinality(items_ret.ret) = 2

\* the store keys whose type tag the decoders do not know: consensus with
\* a type outside 0..5, storage with a type other than 0
UnknownTypeKeys ==
    {k \in DOMAIN kv :
        /\ k[1] \in {"consensus", "storage"}
        /\ Len(k[2]) >= 1
        /\ \/ (k[1] = "consensus" /\ IntOf(<<k[2][1]>>) \notin 0..5)
           \/ (k[1] = "storage" /\ IntOf(<<k[2][1]>>) # 0)}

\* C20: unknown key type tags degrade to raw bytes.  For every entry of
\* the store in the consensus keyspace with a type outside 0..5, or in the
\* storage keyspace with a type other than 0, items() raises nothing and
\* reports as its value the value bytes as hex digits.
UnknownTypeDegrades ==
    items_ret.called =>
        \A k \in UnknownTypeKeys :
            /\ items_ret.error = "none"
            /\ \A e \in EntriesFor(items_ret.ret, decode_key(k[1], k[2])) :
                  e.value = [kind |-> "hex", body |-> hex(kv[k])]

\* the records of a batch as (key, value bytes) pairs
KeysAndValues(records) ==
    [i \in 1..Len(records) |-> <<records[i].key, records[i].value>>]

\* the bytes of the snapshot file at a checksum field
SnapshotCrcAt(name) == Slice(snapshot.bytes, SnapshotCrcFields[name], 4)

\* C21: snapshot decoding verifies no checksum.  Whatever the snapshot
\* header's header_crc and metadata_crc and the embedded batch's header_crc
\* and crc hold, reading the snapshot and decoding its batch raises nothing:
\* once Bootstrap is over, the decoded batch carries the checksum fields of
\* the file as they are and the records that were written, and no
\* CorruptBatchError is raised before the first segment is opened.
SnapshotUnverified ==
    (mode = "decode" /\ input.snap.present /\ pc # "start") =>
        /\ ~(pc = "raised" /\ it = NoIterator)
        /\ data_batch.header.header_crc = SnapshotCrcAt("batch_header_crc")
        /\ data_batch.header.crc = SnapshotCrcAt("batch_crc")
        /\ KeysAndValues(data_batch.records)
              = [i \in 1..Len(input.snap.recs) |->
                    <<Some(input.snap.recs[i].key),
                      Some(EncValue(input.snap.recs[i].val))>>]

\* C21 witness: the record of a snapshot whose four checksum fields all hold
\* other bytes has been applied.
SnapshotUnverifiedWitness ==
    /\ input.snap.crc = "all"
    /\ \A n \in DOMAIN SnapshotCrcFields : SnapshotCrcAt(n) = OtherCrc
    /\ data_batch.header.header_crc # HeaderCrcOf(data_batch.header)
    /\ Len(applied) >= 1 /\ applied[1].src = "snapshot"
    /\ pc = "done"

\* the sum of header.batch_size over the first k batches of a sequence
RECURSIVE SizeOfFirst(_, _)
SizeOfFirst(batches, k) ==
    IF k = 0 THEN 0
    ELSE SizeOfFirst(batches, k - 1) + IntOf(batches[k].header.batch_size)

\* batch k of a sequence yielded from the file f lies at the sum of the
\* sizes before it: its header is the HEADER_SIZE bytes there, its records
\* are the batch_size - HEADER_SIZE bytes that follow
LiesAtSum(f, batches, k) ==
    /\ batches[k].header = Header(Read(f, SizeOfFirst(batches, k - 1), HEADER_SIZE))
    /\ Len(batches[k].records) = IntOf(batches[k].header.batch_size) - HEADER_SIZE
    /\ batches[k].records = Read(f, SizeOfFirst(batches, k - 1) + HEADER_SIZE,
                                 IntOf(batches[k].header.batch_size) - HEADER_SIZE)

\* C22: exact byte accounting per batch.  In an iteration of a segment
\* every yielded batch has consumed exactly header.batch_size bytes: batch
\* k was read at the sum of batch_size of the k - 1 batches before it, and
\* while the iteration is under way the stream stands at the sum of
\* batch_size of all batches yielded.
ExactByteAccounting ==
    mode \in Iterating =>
        /\ \A k \in 1..Len(yielded) :
              LiesAtSum(segments[1].bytes, YieldedBatches, k)
        /\ pc = "batches" => it.pos = SizeOfFirst(YieldedBatches, Len(yielded))
        /\ \A k \in 1..Len(it2.yielded) :
              LiesAtSum(segments[1].bytes, it2.yielded, k)
        /\ it2.state = "batches" =>
              it2.pos = SizeOfFirst(it2.yielded, Len(it2.yielded))

\* C22 witness: two batches were yielded, the second one read at the
\* batch_size of the first, and the stream stands at the sum of both.
ExactByteAccountingWitness ==
    /\ mode \in Iterating /\ pc = "batches" /\ Len(yielded) = 2
    /\ IntOf(yielded[1].b.header.batch_size) > HEADER_SIZE
    /\ yielded[2].b.header
          = Header(Read(segments[1].bytes, IntOf(yielded[1].b.header.batch_size),
                        HEADER_SIZE))
    /\ it.pos = IntOf(yielded[1].b.header.batch_size)
                   + IntOf(yielded[2].b.header.batch_size)

\* the records written to the batch that the RecordIter iterates, for a
\* directory of whole files read by decode()
WrittenToBatch ==
    BatchesOf(input.items, yielded[Len(yielded)].seg)[batch.b.index + 1].recs

\* a yielded record is the written record w
RecordMatches(rec, w) ==
    /\ rec.key = Some(w.key)
    /\ rec.value = Some(EncValue(w.val))
    /\ rec.offset_delta = w.od
    /\ rec.headers = <<>>

\* C23: record iteration yields exactly record_count records.  Iterating a
\* batch of n well-formed records yields them in the order they are stored,
\* n in all when the loop over the batch has ended; the records yielded and
\* those left to yield always add up to header.record_count; and yielding a
\* batch parses no record: an iteration over batches that never iterates
\* their records reads nothing of a record region and raises nothing on a
\* region that does not hold what the header says.
RecordCountYielded ==
    /\ (mode = "decode" /\ Intact /\ batch # NoRecordIter) =>
          /\ IntOf(batch.b.header.record_count) = Len(WrittenToBatch)
          /\ Len(batch.records) <= Len(WrittenToBatch)
          /\ \A i \in 1..Len(batch.records) :
                RecordMatches(batch.records[i], WrittenToBatch[i])
          /\ pc \in {"batches", "segments", "done"} =>
                /\ batch.record_count = 0
                /\ Len(batch.records) = Len(WrittenToBatch)
    /\ (batch # NoRecordIter /\ raised.kind # "TruncatedInputError") =>
          Len(batch.records) + batch.record_count
             = IntOf(batch.b.header.record_count)
    /\ mode \in Iterating =>
          /\ batch.records = <<>> /\ batch.pos = 0
          /\ input.tail.kind \in {"overcount", "shortvalue"} =>
                /\ pc # "raised" /\ it2.state # "raised"
                /\ pc = "stopped" => Len(yielded) = Len(input.items) + 1

\* C23 witness: the loop over a batch of two records has ended after
\* yielding both, the second one with offset delta 1.
RecordCountYieldedWitness ==
    /\ mode = "decode" /\ Intact /\ pc = "batches"
    /\ IntOf(batch.b.header.record_count) = 2
    /\ Len(batch.records) = 2 /\ batch.record_count = 0
    /\ batch.records[2].offset_delta = 1
    /\ batch.pos = Len(batch.b.records)

\* the RecordIter is on the batch that follows the whole batches of a
\* segment with a tail
OnTailBatch == batch # NoRecordIter /\ batch.b.index = Len(input.items)

\* the whole records at the start of the record region of a tail batch
WholeRecordsOf(kind) == IF kind = "overcount" THEN 1 ELSE 0

\* C24: truncation inside a record is fatal.  When decode() iterates a
\* CRC-valid batch that declares one record more than its region holds, or
\* whose only record lacks its last bytes, the loop over the batch never
\* ends normally and decode() never completes: it ends with
\* TruncatedInputError, after the records the region holds in full, each
\* with all the bytes its lengths declare, and no others, were yielded.
TruncatedRecordFatal ==
    (mode = "decode" /\ input.tail.kind \in {"overcount", "shortvalue"}) =>
        /\ pc # "done"
        /\ pc = "raised" => raised.kind = "TruncatedInputError"
        /\ OnTailBatch =>
              /\ pc \in {"records", "raised"}
              /\ Len(batch.records) <= WholeRecordsOf(input.tail.kind)
              /\ \A i \in 1..Len(batch.records) :
                    /\ batch.records[i].key = Some(KA)
                    /\ batch.records[i].value = Some(EncValue(V2))
              /\ batch.record_count = 0 => pc = "raised"

\* C24 witness: decode() has ended with TruncatedInputError in a batch that
\* declares two records, after the one record its region holds.
TruncatedRecordFatalWitness ==
    /\ mode = "decode" /\ input.tail.kind = "overcount" /\ OnTailBatch
    /\ IntOf(batch.b.header.record_count) = 2
    /\ Len(batch.records) = 1
    /\ pc = "raised" /\ raised.kind = "TruncatedInputError"
    /\ Len(yielded) = Len(input.items) + 1

\* C25: a zero-length key or value decodes to null.  A record whose key
\* length is 0 is yielded with key None, one whose value length is 0 with
\* value None, and the other field with its bytes; a key or value that is
\* not None has as many bytes as its length says, at least one; and a
\* batch whose records were all yielded has been consumed to its last
\* byte, so that no field took more or fewer bytes than its length.
ZeroLengthIsNone ==
    mode = "decode" =>
        /\ (OnTailBatch /\ Len(batch.records) = 1 /\ input.tail.kind = "nokey") =>
              /\ batch.records[1].key = None
              /\ batch.records[1].value = Some(EncValue(V2))
              /\ batch.pos = Len(batch.b.records)
        /\ (OnTailBatch /\ Len(batch.records) = 1 /\ input.tail.kind = "novalue") =>
              /\ batch.records[1].key = Some(KA)
              /\ batch.records[1].value = None
              /\ batch.pos = Len(batch.b.records)
        /\ \A i \in 1..Len(batch.records) :
              /\ batch.records[i].key.some => batch.records[i].key.bytes # <<>>
              /\ batch.records[i].value.some => batch.records[i].value.bytes # <<>>
        /\ (Intact /\ batch # NoRecordIter) =>
              /\ \A i \in 1..Len(batch.records) :
                    RecordMatches(batch.records[i], WrittenToBatch[i])
              /\ Len(batch.records) = Len(WrittenToBatch) =>
                    batch.pos = Len(batch.b.records)

\* C25 witness: a record whose value length is 0 has been yielded with its
\* two key bytes and the value None, and the region is consumed.
ZeroLengthIsNoneWitness ==
    /\ mode = "decode" /\ input.tail.kind = "novalue" /\ OnTailBatch
    /\ Len(batch.records) = 1
    /\ batch.records[1].key = Some(<<0, 1>>) /\ batch.records[1].value = None
    /\ batch.pos = Len(batch.b.records)

\* C26: the materialized view is read-only after replay.  A call of
\* items() leaves the store map as it is, and every call of items() after
\* the first returns (or raises) what the call before it did.
ItemsReadOnly ==
    /\ [][items_ret' # items_ret => kv' = kv]_vars
    /\ [](items_ret.calls >= 2 =>
             /\ items_ret.ret = items_ret.prev.ret
             /\ items_ret.error = items_ret.prev.error)

\* C26 witness: items() was called twice after decode() completed on a
\* store of two entries and returned two entries both times.
ItemsReadOnlyWitness ==
    /\ pc = "done" /\ items_ret.calls = 2
    /\ Cardinality(DOMAIN kv) = 2
    /\ BagCardinality(items_ret.ret) = 2
    /\ items_ret.prev.ret = items_ret.ret

\* the entries applied from segments, in the order they were applied
SegmentEntries ==
    SubSeq(applied, Cardinality(AppliedFromSnapshot) + 1, Len(applied))

\* C27: a record without a payload leaves the store unchanged.  A record
\* whose optional payload is absent, or present and empty, is applied as an
\* entry without data, and applying an entry without data changes nothing
\* in the store: when decode() has completed, the store is what the records
\* with a payload write, in order, so a key set to V before such a record
\* still maps to V.
NoPayloadNoChange ==
    /\ [][(Len(applied') = Len(applied) + 1
           /\ applied'[Len(applied')].entry.data = None) => kv' = kv]_vars
    /\ []((mode = "decode" /\ Intact) =>
             /\ \A k \in 1..Len(SegmentEntries) :
                   (SegmentEntries[k].entry.data = None)
                      <=> ~HasPayload(SegmentRecords[k].val)
             /\ pc = "done" => kv = StoreOf(input.snap.recs \o SegmentRecords))

\* C27 witness: decode() has completed after a record that sets a key to
\* the byte 22 and a later record for that key with no payload, and the key
\* maps to the byte 22.
NoPayloadNoChangeWitness ==
    /\ pc = "done" /\ Intact /\ Len(input.items) = 2
    /\ input.items[1].r = [key |-> KA, val |-> V2, bt |-> 4]
    /\ input.items[2].r = [key |-> KA, val |-> None, bt |-> 4]
    /\ Len(SegmentEntries) = 2 /\ SegmentEntries[2].entry.data = None
    /\ kv[<<"testing", <<1>>>>] = <<22>>

\* the store keys of the keyspace "unknown"
UnknownStoreKeys == {k \in DOMAIN kv : k[1] = "unknown"}

\* C28: unrecognized keyspaces share one store key space.  When decode()
\* has completed on an intact directory with a snapshot and kvstore batches
\* only, two records with a payload whose keyspace bytes are different
\* values outside 0..3 and whose remaining key bytes are equal have been
\* applied under one store key ("unknown", remaining bytes), and that key
\* maps to the value of the later of the two unless a still later record
\* wrote the key again.
UnknownKeyspacesShared ==
    (/\ mode = "decode" /\ Intact /\ input.snap.present /\ pc = "done"
     /\ \A i \in 1..Len(input.items) : input.items[i].r.bt = KVSTORE_BATCH_TYPE)
    => \A i \in UnknownKeyspaceRecords, j \in UnknownKeyspaceRecords :
          LET r1 == input.items[i].r
              r2 == input.items[j].r
          IN  (/\ i < j /\ r1.key[1] # r2.key[1] /\ Tail(r1.key) = Tail(r2.key)
               /\ HasPayload(r1.val) /\ HasPayload(r2.val))
              => /\ <<SegmentEntries[i].entry.key_space, SegmentEntries[i].entry.key_buf>>
                       = <<"unknown", Tail(r1.key)>>
                 /\ <<SegmentEntries[j].entry.key_space, SegmentEntries[j].entry.key_buf>>
                       = <<"unknown", Tail(r1.key)>>
                 /\ <<"unknown", Tail(r1.key)>> \in DOMAIN kv
                 /\ (\A k \in (j + 1)..Len(input.items) :
                        ~(StoreKey(input.items[k].r.key) = <<"unknown", Tail(r1.key)>>
                          /\ HasPayload(input.items[k].r.val)))
                    => kv[<<"unknown", Tail(r1.key)>>] = r2.val.bytes

\* C28 witness: decode() has completed after a record with key bytes 7, 1
\* and value byte 11 and a later record with key bytes 99, 1 and value
\* byte 22, and the store holds one "unknown" key, mapped to the byte 22.
UnknownKeyspacesSharedWitness ==
    /\ pc = "done" /\ Intact /\ Len(input.items) = 2
    /\ input.items[1].r = [key |-> <<7, 1>>, val |-> V1, bt |-> 4]
    /\ input.items[2].r = [key |-> <<99, 1>>, val |-> V2, bt |-> 4]
    /\ UnknownStoreKeys = {<<"unknown", <<1>>>>}
    /\ kv[<<"unknown", <<1>>>>] = <<22>>

\* where the zero-filled header of the input's segment ends
ZeroHeaderEnd == Len(BaseFile[Len(input.items)]) + HEADER_SIZE

\* C29: nothing after an all-zero header is read.  On a segment whose
\* batches are followed by a zero-filled HEADER_SIZE region and then a valid
\* batch, no iteration reads beyond the zero-filled region, no iteration
\* yields the batch behind it, no record of that batch is applied, and
\* when decode() has completed the store is what the snapshot and the
\* batches before the region write.
NothingAfterZeroHeader ==
    input.tail.kind = "zerobatch" =>
        /\ it.pos <= ZeroHeaderEnd /\ it2.pos <= ZeroHeaderEnd
        /\ \A i \in 1..Len(yielded) :
              /\ yielded[i].b.index < Len(input.items)
              /\ IntOf(yielded[i].b.header.base_offset) # BaseOffsetOf(Len(input.items) + 1)
        /\ \A i \in 1..Len(it2.yielded) :
              /\ it2.yielded[i].index < Len(input.items)
              /\ IntOf(it2.yielded[i].header.base_offset)
                    # BaseOffsetOf(Len(input.items) + 1)
        /\ \A i \in AppliedFromSegments : applied[i].index < Len(input.items)
        /\ Len(SegmentEntries) <= Len(input.items)
        /\ pc = "done" => kv = StoreOf(input.snap.recs \o SegmentRecords)

\* C29 witness: decode() has completed on a segment of one batch setting a
\* key to the byte 11, a zero-filled header, and a valid batch setting the
\* key to the byte 22; one batch was yielded and the key maps to 11.
NothingAfterZeroHeaderWitness ==
    /\ input.tail.kind = "zerobatch" /\ Len(input.items) = 1
    /\ from_stream(segments[1].bytes, ZeroHeaderEnd, 1).kind = "Batch"
    /\ from_stream(segments[1].bytes, ZeroHeaderEnd, 1).batch.records = TailRecord
    /\ pc = "done" /\ Len(yielded) = 1 /\ Len(SegmentEntries) = 1
    /\ kv[<<"testing", <<1>>>>] = <<11>>

\* C30: replay is idempotent.  When a second decode() on the same KvStore
\* over the same files has returned or raised, it has replayed the snapshot
\* and every segment as the first did (the same entries applied, in the
\* same order, and the same outcome), and the store equals the store the
\* first call left.
ReplayIdempotent ==
    (first.done /\ pc \in {"done", "raised"}) =>
        /\ applied = first.applied
        /\ raised = first.raised
        /\ kv = first.kv

\* C30 witness: a second decode() has completed on a directory of two
\* segments whose records set a key to the byte 11 and then to the byte
\* 22, each call applied the snapshot's record and both segments' records,
\* and the key maps to 22 as after the first call.
ReplayIdempotentWitness ==
    /\ first.done /\ pc = "done" /\ Len(segments) = 2
    /\ Len(first.applied) = 3 /\ Len(applied) = 3
    /\ input.items[1].r = [key |-> KA, val |-> V1, bt |-> 4]
    /\ input.items[2].r = [key |-> KA, val |-> V2, bt |-> 4]
    /\ first.kv[<<"testing", <<1>>>>] = <<22>>
    /\ kv[<<"testing", <<1>>>>] = <<22>>

====
